---- MODULE Spec2Model ----
(***************************************************************************)
(* Model of the metadata merge core of MediaFileMerger                     *)
(* (src/photoprocessor/merger.py) and of the export batch driver           *)
(* (src/photoprocessor/export_pipe.py).                                    *)
(*                                                                         *)
(* Conventions                                                             *)
(*   - Python's None / Optional[x] is the tuple <<>> / <<x>>.              *)
(*   - A datetime is [aware, wall, off, zone]: wall-clock seconds since    *)
(*     2000-01-01T00:00:00, the UTC offset in seconds (0 when naive) and   *)
(*     whether tzinfo is a ZoneInfo (TRUE) or a datetime.timezone (FALSE). *)
(*   - A string is [fmt, n]: the textual pattern and the numbers it holds. *)
(*   - A real is an integer count of 1e-7 degrees.                         *)
(***************************************************************************)
EXTENDS Integers, Sequences, FiniteSets, TLC

VARIABLES
    entries,            \* MergeContext.entries of the media file being merged
    merged_data,        \* MergeContext.merged_data
    conflicts,          \* MergeContext.conflicts
    finalized_fields,   \* MergeContext.finalized_fields
    trace,              \* stages consulted by the running pipeline (history)
    pc,                 \* position of MergePipeline.run in its step list
    container,          \* DateTimeCandidateContainer._candidates of the running step
    prev,               \* the context as the last executed step found it (history)
    last,               \* position of the last executed step (history)
    env,                \* what the environment answers: timezone lookup, set order
    run,                \* number of MergePipeline.run calls that have ended
    returned,           \* what each ended MergePipeline.run call gave its caller
    contA, contB,       \* two containers fed the same candidates
    todoA, todoB,       \* candidates still to be added to contA / contB
    tolerance,          \* tolerance of contA and contB
    media_files,        \* MediaFile id -> outcome of merging its sources, relative export path
    batches,            \* the batches export_main submits, each a list of locations
    processed_media_ids,\* the set shared by all process_export_batch calls
    jobs,               \* batch -> the FileExportJob list of its process_export_batch call
    batch_pc,           \* batch -> position of its process_export_batch call
    conflict_log,       \* media files logged by log_conflict and written to conflict_fp
    files,              \* the files under export_dir, each a path and the media file stored
    handed,             \* jobs given to copy_file_task / write_metadata_batch (history)
    heap,               \* the MergeContext objects, in the order MergePipeline.run made them
    workers,            \* worker thread -> its sources, its context, its position in run
    google_json,        \* the sidecar JSON handed to _parse_key_google_fields
    extracted           \* what _parse_key_google_fields returned for it, or None

ctx_vars == <<merged_data, conflicts, finalized_fields, trace>>
pipeline_vars == <<entries, merged_data, conflicts, finalized_fields, trace, pc, container,
                   prev, last, env, run, returned>>
container_vars == <<contA, contB, todoA, todoB, tolerance>>
export_vars == <<media_files, batches, processed_media_ids, jobs, batch_pc, conflict_log,
                 files, handed>>
worker_vars == <<heap, workers>>
sidecar_vars == <<google_json, extracted>>
vars == <<pipeline_vars, container_vars, export_vars, worker_vars, sidecar_vars>>

----------------------------------------------------------------------------
(* Optional values *)

None == <<>>
Some(x) == <<x>>
IsNone(o) == o = <<>>
Get(o) == o[1]

Abs(x) == IF x < 0 THEN -x ELSE x

RECURSIVE SeqToSet(_)
SeqToSet(s) == IF s = <<>> THEN {} ELSE {Head(s)} \cup SeqToSet(Tail(s))

----------------------------------------------------------------------------
(* Calendar: datetime(y, m, d, h, mi, s) as seconds since 2000-01-01 *)

IsLeap(y) == (y % 4 = 0 /\ y % 100 # 0) \/ y % 400 = 0

DaysInMonth(y, m) ==
    IF m = 2 THEN (IF IsLeap(y) THEN 29 ELSE 28)
    ELSE IF m \in {4, 6, 9, 11} THEN 30 ELSE 31

\* datetime's constructor raises ValueError unless this holds
ValidDate(y, m, d) ==
    /\ y >= 1 /\ y <= 9999
    /\ m >= 1 /\ m <= 12
    /\ d >= 1 /\ d <= DaysInMonth(y, m)

LeapsUpTo(y) == (y \div 4) - (y \div 100) + (y \div 400)

RECURSIVE DaysBeforeMonth(_, _)
DaysBeforeMonth(y, m) ==
    IF m <= 1 THEN 0 ELSE DaysBeforeMonth(y, m - 1) + DaysInMonth(y, m - 1)

DayNumber(y, m, d) ==
    365 * (y - 2000) + (LeapsUpTo(y - 1) - LeapsUpTo(1999)) + DaysBeforeMonth(y, m) + (d - 1)

WallSeconds(y, m, d, h, mi, s) == DayNumber(y, m, d) * 86400 + h * 3600 + mi * 60 + s

----------------------------------------------------------------------------
(* datetime values *)

Naive(w) == [aware |-> FALSE, wall |-> w, off |-> 0, zone |-> FALSE]
Aware(w, o) == [aware |-> TRUE, wall |-> w, off |-> o, zone |-> FALSE]

\* dt.astimezone(timezone.utc).replace(tzinfo=None), as seconds
UtcSeconds(dt) == dt.wall - dt.off

\* dt.tzinfo is timezone.utc: datetime.timezone keeps one object for offset zero
IsTimezoneUtc(dt) == dt.aware /\ ~dt.zone /\ dt.off = 0

\* dt.replace(tzinfo=None)
ReplaceTzNone(dt) == Naive(dt.wall)

\* dt.replace(tzinfo=timezone.utc)
ReplaceTzUtc(dt) == Aware(dt.wall, 0)

\* variant: dt.replace(tzinfo=timezone(offset)), which keeps the wall clock
AsFixedOffset_replace(dt, o) == Aware(dt.wall, o)

\* dt.astimezone(timezone(offset)) of an aware dt
AsFixedOffset(dt, o) == Aware(UtcSeconds(dt) + o, o)

\* dt.astimezone(ZoneInfo) of an aware dt, the zone standing at offset o
AsZone(dt, o) == [aware |-> TRUE, wall |-> UtcSeconds(dt) + o, off |-> o, zone |-> TRUE]

\* dt.replace(tzinfo=ZoneInfo)
ReplaceTzZone(dt, o) == [aware |-> TRUE, wall |-> dt.wall, off |-> o, zone |-> TRUE]

\* Python's == on two datetimes: instants when both aware, wall clocks when both
\* naive, never equal when mixed
DtEq(a, b) ==
    /\ a.aware = b.aware
    /\ IF a.aware THEN UtcSeconds(a) = UtcSeconds(b) ELSE a.wall = b.wall

\* Python's < on two datetimes of the same awareness
DtLess(a, b) == IF a.aware THEN UtcSeconds(a) < UtcSeconds(b) ELSE a.wall < b.wall

----------------------------------------------------------------------------
(* DateTimeCandidate and DateTimeCandidateContainer *)

Candidate(v, keys, ids) ==
    [representative_value |-> v, source_keys |-> keys, source_ids |-> ids]

is_aware(c) == c.representative_value.aware

aware_candidates(cands) == SelectSeq(cands, LAMBDA c : is_aware(c))
naive_candidates(cands) == SelectSeq(cands, LAMBDA c : ~is_aware(c))

_is_match(cand1, cand2, tol) ==
    IF is_aware(cand1) # is_aware(cand2) THEN FALSE
    ELSE IF is_aware(cand1)
         THEN /\ Abs(UtcSeconds(cand1.representative_value)
                     - UtcSeconds(cand2.representative_value)) <= tol
              /\ cand1.representative_value.off = cand2.representative_value.off
         ELSE Abs(cand1.representative_value.wall - cand2.representative_value.wall) <= tol

\* min(c.representative_value for c in cs): the first minimal element
RECURSIVE MinValue(_)
MinValue(cs) ==
    IF Len(cs) = 1 THEN cs[1].representative_value
    ELSE LET rest == MinValue(Tail(cs))
             h == cs[1].representative_value
         IN IF DtLess(rest, h) THEN rest ELSE h

RECURSIVE UnionKeys(_)
UnionKeys(cs) == IF cs = <<>> THEN {} ELSE cs[1].source_keys \cup UnionKeys(Tail(cs))

RECURSIVE UnionIds(_)
UnionIds(cs) == IF cs = <<>> THEN {} ELSE cs[1].source_ids \cup UnionIds(Tail(cs))

\* variant: the merged candidate takes the value of the new candidate
add_candidate_latest_wins(cands, tol, new_candidate) ==
    LET matching_candidates == SelectSeq(cands, LAMBDA c : _is_match(c, new_candidate, tol))
    IN IF matching_candidates = <<>>
       THEN Append(cands, new_candidate)
       ELSE LET all_to_merge == Append(matching_candidates, new_candidate)
                merged_candidate == Candidate(new_candidate.representative_value,
                                              UnionKeys(all_to_merge),
                                              UnionIds(all_to_merge))
                kept == SelectSeq(cands, LAMBDA c : c \notin SeqToSet(matching_candidates))
            IN Append(kept, merged_candidate)

add_candidate(cands, tol, new_candidate) ==
    LET matching_candidates == SelectSeq(cands, LAMBDA c : _is_match(c, new_candidate, tol))
    IN IF matching_candidates = <<>>
       THEN Append(cands, new_candidate)
       ELSE LET all_to_merge == Append(matching_candidates, new_candidate)
                merged_candidate == Candidate(MinValue(all_to_merge),
                                              UnionKeys(all_to_merge),
                                              UnionIds(all_to_merge))
                kept == SelectSeq(cands, LAMBDA c : c \notin SeqToSet(matching_candidates))
            IN Append(kept, merged_candidate)

----------------------------------------------------------------------------
(* Python values held by entries and by merged_data *)

Str(fmt, n) == [fmt |-> fmt, n |-> n]
NoStr == Str("", <<>>)
NoDt == Naive(0)

PyStr(s) == [type |-> "str", str |-> s, dt |-> NoDt, real |-> 0]
PyDt(d) == [type |-> "datetime", str |-> NoStr, dt |-> d, real |-> 0]
PyReal(r) == [type |-> "float", str |-> NoStr, dt |-> NoDt, real |-> r]

\* bool(v): an empty string and 0.0 are falsy, a datetime never is
Truthy(v) ==
    IF v.type = "str" THEN v.str.fmt # ""
    ELSE IF v.type = "float" THEN v.real # 0
    ELSE TRUE

\* v1 == v2 in Python
PyEq(v1, v2) ==
    /\ v1.type = v2.type
    /\ IF v1.type = "datetime" THEN DtEq(v1.dt, v2.dt) ELSE v1 = v2

\* str(x) of a float, strftime of a datetime
StrOfReal(r) == Str("repr(float)", <<r>>)
StrfDate(d) == Str("%Y:%m:%d", <<d.wall \div 86400>>)
StrfTime(d) == Str("%H:%M:%S", <<d.wall % 86400>>)

(* models.MetadataEntry: id, key and the three typed value columns *)
Entry(id, key, vs, vd, vr) ==
    [id |-> id, key |-> key, value_str |-> vs, value_dt |-> vd, value_real |-> vr]
StrEntry(id, key, s) == Entry(id, key, Some(s), None, None)
DtEntry(id, key, d) == Entry(id, key, None, Some(d), None)
RealEntry(id, key, r) == Entry(id, key, None, None, Some(r))

\* ent.value: the column that is set
EntryValue(e) ==
    IF ~IsNone(e.value_str) THEN Some(PyStr(Get(e.value_str)))
    ELSE IF ~IsNone(e.value_dt) THEN Some(PyDt(Get(e.value_dt)))
    ELSE IF ~IsNone(e.value_real) THEN Some(PyReal(Get(e.value_real)))
    ELSE None

----------------------------------------------------------------------------
(* ExportArgument objects and MergeContext *)

SimpleArgument(tag, value) == [cls |-> "SimpleArgument", tag |-> tag, value |-> value]
DateTimeArgument(value, date_type) ==
    [cls |-> "DateTimeArgument", tag |-> date_type, value |-> value]
RawValue(value) == [cls |-> "raw", tag |-> "", value |-> value]

IsExportArgument(stored) == stored.cls \in {"SimpleArgument", "DateTimeArgument"}

\* the fields of the default pipeline, the sentinel "_File" and the fields of
\* BasicFieldMergeStep("XMP:CreateDate") and BasicFieldMergeStep("FileModifyDate")
Fields == {"gps_latitude", "gps_longitude", "Composite:GPSDateTime", "gps_datetime",
           "GPSDateStamp", "GPSTimeStamp", "taken", "modified", "_File",
           "XMP:CreateDate", "FileModifyDate"}

\* MergeContext.__init__
NewContext ==
    [merged_data |-> [f \in Fields |-> None],
     conflicts |-> [f \in Fields |-> <<>>],
     finalized_fields |-> {},
     trace |-> {}]

InConflicts(ctx, field_name) == ctx.conflicts[field_name] # <<>>

get_entries_by_keys(ents, keys) == SelectSeq(ents, LAMBDA e : e.key \in keys)

\* get_value(field_name, required=True) raises RuntimeError
get_value_raises(ctx, field_name) == field_name \notin ctx.finalized_fields

\* get_value(field_name): the raw value, also of an ExportArgument
get_value(ctx, field_name) ==
    LET stored_value == ctx.merged_data[field_name]
    IN IF IsNone(stored_value) THEN None ELSE Some(Get(stored_value).value)

\* set_value(field_name, value) with value not None
set_value(ctx, field_name, value) ==
    [ctx EXCEPT !.merged_data[field_name] = Some(value),
                !.finalized_fields = @ \cup {field_name}]

record_conflict(ctx, field_name, message) ==
    [ctx EXCEPT !.conflicts[field_name] = Append(@, message)]

Traced(ctx, event) == [ctx EXCEPT !.trace = @ \cup {event}]

\* SimpleArgument.get_managed_tags / DateTimeArgument.get_managed_tags
get_managed_tags(arg) ==
    IF arg.cls = "SimpleArgument" THEN {"-" \o arg.tag}
    ELSE IF arg.value.type # "datetime" THEN {}
    ELSE (IF arg.tag = "taken"
          THEN {"-EXIF:DateTimeOriginal", "-EXIF:CreateDate", "-FileCreateDate"}
          ELSE IF arg.tag = "modified" THEN {"-EXIF:ModifyDate", "-FileModifyDate"}
          ELSE {})
         \cup
         (IF ~arg.value.dt.aware THEN {}
          ELSE IF arg.tag = "taken"
          THEN {"-EXIF:OffsetTimeOriginal", "-XMP:DateTimeOriginal", "-XMP:CreateDate",
                "-QuickTime:CreateDate", "-Keys:CreationDate", "-QuickTime:CreationDate"}
          ELSE IF arg.tag = "modified"
          THEN {"-XMP:ModifyDate", "-QuickTime:ModifyDate", "-EXIF:OffsetTime"}
          ELSE {})

\* the fields of merged_data that hold an ExportArgument
ArgumentFields(ctx) ==
    {f \in Fields : ~IsNone(ctx.merged_data[f]) /\ IsExportArgument(Get(ctx.merged_data[f]))}

\* only the tags of the argument just before are remembered
RECURSIVE _validate_argument_conflicts_adjacent(_, _, _)
_validate_argument_conflicts_adjacent(ctx, order, seen_tags) ==
    IF order = <<>> THEN ctx
    ELSE LET managed_tags == get_managed_tags(Get(ctx.merged_data[Head(order)]))
         IN _validate_argument_conflicts_adjacent(
                IF seen_tags \cap managed_tags # {}
                THEN record_conflict(ctx, "_File", "Tag conflict detected!")
                ELSE ctx,
                Tail(order), managed_tags)

\* _validate_argument_conflicts over the arguments in the order of the dict
RECURSIVE _validate_argument_conflicts(_, _, _)
_validate_argument_conflicts(ctx, order, seen_tags) ==
    IF order = <<>> THEN ctx
    ELSE LET managed_tags == get_managed_tags(Get(ctx.merged_data[Head(order)]))
         IN _validate_argument_conflicts(
                IF seen_tags \cap managed_tags # {}
                THEN record_conflict(ctx, "_File", "Tag conflict detected!")
                ELSE ctx,
                Tail(order), seen_tags \cup managed_tags)

----------------------------------------------------------------------------
(* BasicFieldMergeStep and GPSDateTimeMergeStep *)

\* s.value_str or s.value_dt or s.value_real
Coalesce(e) ==
    IF ~IsNone(e.value_str) /\ Truthy(PyStr(Get(e.value_str))) THEN Some(PyStr(Get(e.value_str)))
    ELSE IF ~IsNone(e.value_dt) THEN Some(PyDt(Get(e.value_dt)))
    ELSE IF ~IsNone(e.value_real) THEN Some(PyReal(Get(e.value_real)))
    ELSE None

\* the set comprehension, as the distinct values in order of first insertion
RECURSIVE PotentialValues(_)
PotentialValues(es) ==
    IF es = <<>> THEN <<>>
    ELSE LET before == PotentialValues(SubSeq(es, 1, Len(es) - 1))
             v == Coalesce(es[Len(es)])
         IN IF IsNone(v) \/ \E i \in 1..Len(before) : PyEq(before[i], Get(v))
            THEN before
            ELSE Append(before, Get(v))

\* variant: with several distinct values the first one is committed
BasicFieldMergeStep_process_first_wins(ctx, ents, key, generate_argument) ==
    LET potential_values == PotentialValues(get_entries_by_keys(ents, {key}))
    IN IF potential_values = <<>> THEN ctx
       ELSE IF generate_argument
       THEN set_value(ctx, key, SimpleArgument(key, potential_values[1]))
       ELSE set_value(ctx, key, RawValue(potential_values[1]))

BasicFieldMergeStep_process(ctx, ents, key, generate_argument) ==
    LET relevant_entries == get_entries_by_keys(ents, {key})
        potential_values == PotentialValues(relevant_entries)
    IN IF potential_values = <<>> THEN ctx
       ELSE IF Len(potential_values) = 1
       THEN IF generate_argument
            THEN set_value(ctx, key, SimpleArgument(key, potential_values[1]))
            ELSE set_value(ctx, key, RawValue(potential_values[1]))
       ELSE record_conflict(ctx, key, "Conflicting values")

\* variant: the value is formatted without the isinstance check
GPSDateTimeMergeStep_process_unchecked(ctx, ents) ==
    LET c1 == BasicFieldMergeStep_process(ctx, ents, "Composite:GPSDateTime", FALSE)
        gps_datetime == get_value(c1, "Composite:GPSDateTime")
    IN IF InConflicts(c1, "Composite:GPSDateTime")
       THEN record_conflict(c1, "gps_datetime", "[GPSDateTime Conflict]")
       ELSE IF IsNone(gps_datetime) THEN c1
       ELSE LET d == Get(gps_datetime).dt
                c2 == set_value(c1, "GPSDateStamp",
                                SimpleArgument("GPSDateStamp", PyStr(StrfDate(d))))
            IN set_value(c2, "GPSTimeStamp",
                         SimpleArgument("GPSTimeStamp", PyStr(StrfTime(d))))

GPSDateTimeMergeStep_process(ctx, ents) ==
    LET c1 == BasicFieldMergeStep_process(ctx, ents, "Composite:GPSDateTime", FALSE)
        gps_datetime == get_value(c1, "Composite:GPSDateTime")
    IN IF InConflicts(c1, "Composite:GPSDateTime")
       THEN record_conflict(c1, "gps_datetime", "[GPSDateTime Conflict]")
       ELSE IF IsNone(gps_datetime) THEN c1
       ELSE IF Get(gps_datetime).type # "datetime"
       THEN record_conflict(c1, "gps_datetime", "Invalid GPSDateTime value type")
       ELSE LET d == Get(gps_datetime).dt
                c2 == set_value(c1, "GPSDateStamp",
                                SimpleArgument("GPSDateStamp", PyStr(StrfDate(d))))
            IN set_value(c2, "GPSTimeStamp",
                         SimpleArgument("GPSTimeStamp", PyStr(StrfTime(d))))

----------------------------------------------------------------------------
(* merge_rules.gps_comparator and GPSMergeStep *)

\* abs_tol=1e-6, in units of 1e-7 degrees
GpsTolerance == 10

gps_comparator(val1, val2) == Abs(val1 - val2) <= GpsTolerance

\* variant: the iteration order of a set changes from one run to the next
FirstInSetOrder_per_run(values, set_order) ==
    LET idx == CHOOSE i \in 1..Len(set_order) :
                   /\ set_order[i] \in values
                   /\ IF run = 0
                      THEN \A j \in 1..(i - 1) : set_order[j] \notin values
                      ELSE \A j \in (i + 1)..Len(set_order) : set_order[j] \notin values
    IN set_order[idx]

\* next(iter(values)): the element the set's iteration order puts first
FirstInSetOrder(values, set_order) ==
    LET idx == CHOOSE i \in 1..Len(set_order) :
                   /\ set_order[i] \in values
                   /\ \A j \in 1..(i - 1) : set_order[j] \notin values
    IN set_order[idx]

\* (merged_value, conflict_msg)
_merge_values_from_tags(ents, tags, set_order) ==
    LET es == get_entries_by_keys(ents, tags)
        values == {Get(es[i].value_real) : i \in {j \in 1..Len(es) : ~IsNone(es[j].value_real)}}
    IN IF es = <<>> \/ values = {} THEN [merged_value |-> None, conflict_msg |-> None]
       ELSE LET reference_val == FirstInSetOrder(values, set_order)
                conflicting_values == {v \in values : ~gps_comparator(reference_val, v)}
            IN IF conflicting_values # {}
               THEN [merged_value |-> None,
                     conflict_msg |-> Some("GPS coordinates from the same source type are not close enough")]
               ELSE [merged_value |-> Some(reference_val), conflict_msg |-> None]

\* variant: a stage-1 conflict is recorded and stage 2 is consulted all the same
_process_coordinate_falls_through(ctx, ents, key, primary_tags, secondary_tags, final_tag, set_order) ==
    LET stage1 == _merge_values_from_tags(ents, primary_tags, set_order)
        stage2 == _merge_values_from_tags(ents, secondary_tags, set_order)
        c1 == IF ~IsNone(stage1.conflict_msg)
              THEN record_conflict(ctx, key, "[Primary Source Conflict]")
              ELSE ctx
        c2 == Traced(c1, <<"stage2", key>>)
    IN IF ~IsNone(stage1.merged_value)
       THEN set_value(ctx, key, SimpleArgument(final_tag, PyStr(StrOfReal(Get(stage1.merged_value)))))
       ELSE IF ~IsNone(stage2.conflict_msg)
       THEN record_conflict(c2, key, "[Secondary Source Conflict]")
       ELSE IF ~IsNone(stage2.merged_value)
       THEN set_value(c2, key, SimpleArgument(final_tag, PyStr(StrOfReal(Get(stage2.merged_value)))))
       ELSE c2

_process_coordinate(ctx, ents, key, primary_tags, secondary_tags, final_tag, set_order) ==
    LET stage1 == _merge_values_from_tags(ents, primary_tags, set_order)
        stage2 == _merge_values_from_tags(ents, secondary_tags, set_order)
        c2 == Traced(ctx, <<"stage2", key>>)
    IN IF ~IsNone(stage1.conflict_msg)
       THEN record_conflict(ctx, key, "[Primary Source Conflict]")
       ELSE IF ~IsNone(stage1.merged_value)
       THEN set_value(ctx, key, SimpleArgument(final_tag, PyStr(StrOfReal(Get(stage1.merged_value)))))
       ELSE IF ~IsNone(stage2.conflict_msg)
       THEN record_conflict(c2, key, "[Secondary Source Conflict]")
       ELSE IF ~IsNone(stage2.merged_value)
       THEN set_value(c2, key, SimpleArgument(final_tag, PyStr(StrOfReal(Get(stage2.merged_value)))))
       ELSE c2

GPSMergeStep_process(ctx, ents, set_order) ==
    LET c1 == _process_coordinate(ctx, ents, "gps_latitude", {"Composite:GPSLatitude"},
                                  {"google:geoDataLatitude"}, "GPSLatitude", set_order)
    IN _process_coordinate(c1, ents, "gps_longitude", {"Composite:GPSLongitude"},
                           {"google:geoDataLongitude"}, "GPSLongitude", set_order)

----------------------------------------------------------------------------
(* DateTimeAndZoneMergeStep: keys, filename dates, gathering of candidates *)

UTC_KEYS == {"QuickTime:CreateDate", "QuickTime:ModifyDate", "Composite:GPSDateTime",
             "google:photoTakenTime"}

FilenameKeys == {"google:title", "exiftool:SourceFile"}

StrKey(k) == [pair |-> FALSE, name |-> k, first |-> k, second |-> k]
PairKey(a, b) == [pair |-> TRUE, name |-> "(" \o a \o ", " \o b \o ")", first |-> a, second |-> b]

PairKeyNames == {PairKey("EXIF:DateTimeOriginal", "EXIF:OffsetTimeOriginal").name,
                 PairKey("EXIF:ModifyDate", "EXIF:OffsetTime").name}

_get_metadata_keys(date_type) ==
    IF date_type = "taken"
    THEN << StrKey("XMP:DateTimeOriginal"),
            PairKey("EXIF:DateTimeOriginal", "EXIF:OffsetTimeOriginal"),
            StrKey("EXIF:DateTimeOriginal"),
            StrKey("QuickTime:CreationDate"),
            StrKey("QuickTime:CreateDate"),
            StrKey("Keys:CreationDate"),
            StrKey("UserData:DateTimeOriginal"),
            StrKey("XMP:CreateDate"),
            StrKey("EXIF:CreateDate"),
            StrKey("google:photoTakenTime"),
            StrKey("XMP-exif:DateTimeOriginal"),
            StrKey("XMP-xmp:CreateDate") >>
    ELSE << StrKey("EXIF:ModifyDate"),
            PairKey("EXIF:ModifyDate", "EXIF:OffsetTime"),
            StrKey("XMP:ModifyDate"),
            StrKey("XMP-xmp:ModifyDate"),
            StrKey("QuickTime:ModifyDate") >>

\* k.startswith("EXIF") or k.startswith("XMP"), for the keys of the two key lists
StartsWithExifOrXmp(k) ==
    k \in {"XMP:DateTimeOriginal", "EXIF:DateTimeOriginal", "XMP:CreateDate", "EXIF:CreateDate",
           "XMP-exif:DateTimeOriginal", "XMP-xmp:CreateDate", "EXIF:ModifyDate",
           "XMP:ModifyDate", "XMP-xmp:ModifyDate"}

(* File names: "IMG-%Y%m%d-WA0001.jpg" holds <<y, m, d>> as 4+2+2 digits,
   "IMG_%Y%m%d_%H%M%S.jpg" holds <<y, m, d, h, mi, s>>, "photo.jpg" holds nothing. *)
WaName(y, m, d) == Str("IMG-%Y%m%d-WA0001.jpg", <<y, m, d>>)
CamName(y, m, d, h, mi, s) == Str("IMG_%Y%m%d_%H%M%S.jpg", <<y, m, d, h, mi, s>>)
PlainName == Str("photo.jpg", <<>>)

\* the timestamp regex matches only a year 1970-2050 followed by month, day, hour,
\* minute and second digits; datetime() then validates the date
_detect_date_from_file_name(filename) ==
    IF filename.fmt # "IMG_%Y%m%d_%H%M%S.jpg" THEN None
    ELSE LET n == filename.n
         IN IF /\ n[1] >= 1970 /\ n[1] <= 2050
               /\ n[2] >= 1 /\ n[2] <= 12
               /\ n[3] >= 1 /\ n[3] <= 31
               /\ n[4] <= 23 /\ n[5] <= 59 /\ n[6] <= 59
               /\ ValidDate(n[1], n[2], n[3])
            THEN Some(Naive(WallSeconds(n[1], n[2], n[3], n[4], n[5], n[6])))
            ELSE None

RECURSIVE FilenameContainer(_)
FilenameContainer(file_name_entries) ==
    IF file_name_entries = <<>> THEN <<>>
    ELSE LET before == FilenameContainer(SubSeq(file_name_entries, 1, Len(file_name_entries) - 1))
             entry == file_name_entries[Len(file_name_entries)]
             detected_date == IF ~IsNone(entry.value_str) /\ Truthy(PyStr(Get(entry.value_str)))
                              THEN _detect_date_from_file_name(Get(entry.value_str))
                              ELSE None
         IN IF IsNone(detected_date) THEN before
            ELSE add_candidate(before, 60, Candidate(Get(detected_date), {entry.key}, {entry.id}))

\* [ctx, candidates]: candidates is None after a conflict
_get_filename_date_candidates(ctx, ents, date_type) ==
    LET cands == FilenameContainer(get_entries_by_keys(ents, FilenameKeys))
    IN IF Len(cands) > 1
       THEN [ctx |-> record_conflict(ctx, date_type, "Multiple distinct dates inferred from filenames"),
             candidates |-> None]
       ELSE [ctx |-> ctx, candidates |-> Some(cands)]

\* first entry of the list with this key, or 0
FirstIndex(ents, P(_)) ==
    IF \E i \in 1..Len(ents) : P(ents[i])
    THEN CHOOSE i \in 1..Len(ents) : P(ents[i]) /\ \A j \in 1..(i - 1) : ~P(ents[j])
    ELSE 0

_get_value_from_key_and_entries(key, ents) ==
    LET i == FirstIndex(ents, LAMBDA e : e.key = key)
    IN IF i = 0 THEN None ELSE EntryValue(ents[i])

\* re.match(r'^[+-](0[0-9]|1[0-4]):([0-5][0-9])$', s) on "%z" holding <<sign, hh, mm>>
OffsetRegexMatches(s) == s.fmt = "%z" /\ s.n[2] <= 14 /\ s.n[3] <= 59

\* hours, minutes = map(int, s.split(':')); timedelta(hours=hours, minutes=minutes)
ParsedOffsetSeconds(s) == (s.n[1] * s.n[2]) * 3600 + s.n[3] * 60

_get_candidate(key, ents) ==
    IF ~key.pair
    THEN LET i == FirstIndex(ents, LAMBDA e : e.key = key.name /\ ~IsNone(e.value_dt))
         IN IF i = 0 THEN None
            ELSE LET e == ents[i]
                     d == Get(e.value_dt)
                 IN IF d.aware \/ e.key \notin UTC_KEYS
                    THEN Some(Candidate(d, {e.key}, {e.id}))
                    ELSE Some(Candidate(ReplaceTzUtc(d), {e.key}, {e.id}))
    ELSE LET first_value == _get_value_from_key_and_entries(key.first, ents)
             second_value == _get_value_from_key_and_entries(key.second, ents)
         IN IF /\ ~IsNone(first_value) /\ Truthy(Get(first_value))
               /\ ~IsNone(second_value) /\ Truthy(Get(second_value))
               /\ Get(first_value).type = "datetime" /\ Get(second_value).type = "str"
               /\ ~Get(first_value).dt.aware
               /\ OffsetRegexMatches(Get(second_value).str)
            THEN Some(Candidate(
                     Aware(Get(first_value).dt.wall, ParsedOffsetSeconds(Get(second_value).str)),
                     {key.name},
                     {ents[i].id : i \in {j \in 1..Len(ents) : ents[j].key \in {key.first, key.second}}}))
            ELSE None

RECURSIVE _get_candidate_container(_, _)
_get_candidate_container(keys, ents) ==
    IF keys = <<>> THEN <<>>
    ELSE LET before == _get_candidate_container(SubSeq(keys, 1, Len(keys) - 1), ents)
             candidate == _get_candidate(keys[Len(keys)], ents)
         IN IF IsNone(candidate) THEN before ELSE add_candidate(before, 20, Get(candidate))

\* the timezone lookup: None when a coordinate is missing, else what the
\* TimezoneFinder / ZoneInfo pair answers for the committed coordinates
LookupNeeded(ctx) ==
    ~IsNone(get_value(ctx, "gps_latitude")) /\ ~IsNone(get_value(ctx, "gps_longitude"))

infer_timezone(ctx, lookup) ==
    IF ~LookupNeeded(ctx) THEN None
    ELSE IF lookup.outcome = "zone" THEN Some(lookup.off)
    ELSE None

_pre_resolve_google_xmp_utc_heuristic(cands) ==
    LET g == FirstIndex(cands, LAMBDA c : is_aware(c) /\ c.source_keys = {"google:photoTakenTime"})
        x == FirstIndex(cands, LAMBDA c : is_aware(c) /\ c.source_keys = {"XMP:DateTimeOriginal"})
    IN IF g = 0 \/ x = 0 THEN cands
       ELSE IF ~(cands[g].representative_value.off = 0 /\ cands[x].representative_value.off = 0)
       THEN cands
       ELSE IF cands[g].representative_value.wall # cands[x].representative_value.wall
       THEN [cands EXCEPT ![x].representative_value = ReplaceTzNone(@)]
       ELSE cands

----------------------------------------------------------------------------
(* DateTimeAndZoneMergeStep: resolution.  Every resolver yields
   [value, ctx, cands]: the returned datetime (or None), the context and the
   container's candidates, whose objects the resolver mutates in place. *)

Result(value, ctx, cands) == [value |-> value, ctx |-> ctx, cands |-> cands]

AwareIndices(cands) == {i \in 1..Len(cands) : is_aware(cands[i])}

\* [offset, ctx]: offset None after a conflict
RECURSIVE InferOffsets(_, _, _, _, _)
InferOffsets(aware_cand, ncs, ctx, date_type, offsets) ==
    IF ncs = <<>> THEN [offsets |-> Some(offsets), ctx |-> ctx]
    ELSE LET nc == Head(ncs)
             offset == nc.representative_value.wall - UtcSeconds(aware_cand.representative_value)
             dist == offset % 1800
         IN IF ~(-12 * 3600 <= offset /\ offset <= 14 * 3600)
            THEN [offsets |-> None,
                  ctx |-> record_conflict(ctx, date_type, "implies an invalid timezone offset")]
            ELSE IF 60 < dist /\ dist < 1740
            THEN [offsets |-> None,
                  ctx |-> record_conflict(ctx, date_type, "not a whole number of 30-minute increments")]
            ELSE LET rounded == IF dist <= 900 THEN offset - dist ELSE offset + (1800 - dist)
                 IN InferOffsets(aware_cand, Tail(ncs), ctx, date_type, offsets \cup {rounded})

\* variant: disagreeing offsets are settled by taking the largest
SingleOffset_largest(offsets, ctx, date_type) ==
    [offset |-> Some(CHOOSE o \in offsets : \A q \in offsets : q <= o), ctx |-> ctx]

\* the choice among the offsets the loop has collected
SingleOffset(offsets, ctx, date_type) ==
    IF Cardinality(offsets) = 1
    THEN [offset |-> Some(CHOOSE o \in offsets : TRUE), ctx |-> ctx]
    ELSE IF Cardinality(offsets) = 2 /\ 0 \in offsets
    THEN [offset |-> Some(CHOOSE o \in offsets : o # 0), ctx |-> ctx]
    ELSE [offset |-> None,
          ctx |-> record_conflict(ctx, date_type, "imply multiple different timezone offsets")]

InferredOffset(r, date_type) ==
    IF IsNone(r.offsets) THEN [offset |-> None, ctx |-> r.ctx]
    ELSE SingleOffset(Get(r.offsets), r.ctx, date_type)

_infer_timezone_offset_from_naive_candidates(aware_cand, ncs, ctx, date_type) ==
    InferredOffset(InferOffsets(aware_cand, ncs, ctx, date_type, {}), date_type)

\* any key of the aware candidate starts with EXIF, XMP or google:photoTakenTime
AwareHasTrustedKey(aware_cand) ==
    \E k \in aware_cand.source_keys :
        StartsWithExifOrXmp(k) \/ k = "google:photoTakenTime" \/ k \in PairKeyNames

Within24h(nc, aware_cand) ==
    Abs(nc.representative_value.wall - UtcSeconds(aware_cand.representative_value)) <= 24 * 3600

\* the last naive candidate that qualifies for the filename carve-out, or 0
skip_nc_candidate(aware_cand, ncs) ==
    LET ok == {i \in 1..Len(ncs) : /\ ncs[i].source_keys \subseteq FilenameKeys
                                   /\ AwareHasTrustedKey(aware_cand)
                                   /\ Within24h(ncs[i], aware_cand)}
    IN IF ok = {} THEN 0 ELSE CHOOSE i \in ok : \A j \in ok : j <= i

\* the naive candidates compared with the local wall clock only
_validate_aware_against_naive_local_only(aware_cand, ncs, ctx, date_type) ==
    IF \E i \in 1..Len(ncs) :
           Abs(ncs[i].representative_value.wall - aware_cand.representative_value.wall) > 60
    THEN [ok |-> FALSE,
          ctx |-> record_conflict(ctx, date_type, "does not match the timezone-aware candidate")]
    ELSE [ok |-> TRUE, ctx |-> ctx]

\* [ok, ctx]
_validate_aware_against_naive(aware_cand, ncs, ctx, date_type) ==
    LET google == /\ "google:photoTakenTime" \in aware_cand.source_keys
                  /\ \A i \in 1..Len(ncs) : \E k \in ncs[i].source_keys : StartsWithExifOrXmp(k)
                  /\ \A i \in 1..Len(ncs) : Within24h(ncs[i], aware_cand)
        skip == skip_nc_candidate(aware_cand, ncs)
        fails(nc) ==
            /\ ~(skip # 0 /\ nc = ncs[skip])
            /\ Abs(nc.representative_value.wall - aware_cand.representative_value.wall) > 60
            /\ Abs(nc.representative_value.wall - UtcSeconds(aware_cand.representative_value)) > 60
    IN IF google THEN [ok |-> TRUE, ctx |-> ctx]
       ELSE IF \E i \in 1..Len(ncs) : fails(ncs[i])
       THEN [ok |-> FALSE,
             ctx |-> record_conflict(ctx, date_type, "does not match the timezone-aware candidate")]
       ELSE [ok |-> TRUE, ctx |-> ctx]

\* step 3 of _resolve_with_aware after the inference r: the primary candidate
\* is converted in place
WithInferredOffset(r, cands, p) ==
    IF ~IsNone(r.offset) /\ Get(r.offset) # 0
    THEN Result(Some(AsFixedOffset(cands[p].representative_value, Get(r.offset))), r.ctx,
                [cands EXCEPT ![p].representative_value =
                                  AsFixedOffset(cands[p].representative_value, Get(r.offset))])
    ELSE Result(None, r.ctx, cands)

\* step 4 of _resolve_with_aware after the validation r
Validated(r, cands, p) ==
    IF r.ok THEN Result(Some(cands[p].representative_value), r.ctx, cands)
    ELSE Result(None, r.ctx, cands)

NotFromFilename(ncs) == SelectSeq(ncs, LAMBDA nc : ~(nc.source_keys \subseteq FilenameKeys))

\* steps 3 and 4 of _resolve_with_aware, the primary candidate being cands[p]
ResolveAgainstNaive(ctx, cands, p, assumed_utc, date_type) ==
    IF naive_candidates(cands) = <<>>
    THEN Result(Some(cands[p].representative_value), ctx, cands)
    ELSE IF assumed_utc /\ NotFromFilename(naive_candidates(cands)) # <<>>
    THEN WithInferredOffset(
             _infer_timezone_offset_from_naive_candidates(
                 cands[p], NotFromFilename(naive_candidates(cands)), ctx, date_type),
             cands, p)
    ELSE IF ~assumed_utc
    THEN Validated(_validate_aware_against_naive(cands[p], naive_candidates(cands), ctx, date_type),
                   cands, p)
    ELSE Result(Some(cands[p].representative_value), ctx, cands)

\* step 2 skipped: the primary candidate is never converted to the GPS zone
ResolveWithPrimary_keeps_utc(ctx, cands, p, inferred_tz, date_type) ==
    ResolveAgainstNaive(ctx, cands, p,
                        IsTimezoneUtc(cands[p].representative_value)
                            /\ cands[p].source_keys \subseteq UTC_KEYS,
                        date_type)

\* step 2 of _resolve_with_aware, then the rest
ResolveWithPrimary(ctx, cands, p, inferred_tz, date_type) ==
    LET v == cands[p].representative_value
        assumed_utc == IsTimezoneUtc(v) /\ cands[p].source_keys \subseteq UTC_KEYS
    IN IF IsNone(inferred_tz) THEN ResolveAgainstNaive(ctx, cands, p, assumed_utc, date_type)
       ELSE LET expected_offset == Get(inferred_tz)
                actual_offset == v.off
                converted == [cands EXCEPT ![p].representative_value = AsZone(v, expected_offset)]
            IN IF assumed_utc
               THEN ResolveAgainstNaive(ctx, converted, p, FALSE, date_type)
               ELSE IF /\ actual_offset # 0 /\ expected_offset # 0
                       /\ Abs(actual_offset - expected_offset) <= 7200
               THEN ResolveAgainstNaive(ctx, cands, p, assumed_utc, date_type)
               ELSE IF IsTimezoneUtc(v) /\ expected_offset # 0
               THEN ResolveAgainstNaive(ctx, converted, p, assumed_utc, date_type)
               ELSE IF actual_offset # expected_offset
               THEN Result(None,
                           record_conflict(ctx, date_type, "conflicts with the GPS-inferred offset"),
                           cands)
               ELSE ResolveAgainstNaive(ctx, cands, p, assumed_utc, date_type)

_resolve_with_aware(ctx, cands, inferred_tz, date_type) ==
    LET aw == AwareIndices(cands)
        utc == {i \in aw : IsTimezoneUtc(cands[i].representative_value)}
        multiple == Result(None,
                           record_conflict(ctx, date_type,
                               "Multiple distinct timezone-aware datetime candidates found"),
                           cands)
    IN IF Cardinality(aw) = 2
       THEN IF Cardinality(utc) = 1
            THEN ResolveWithPrimary(ctx, cands, CHOOSE i \in aw : i \notin utc, inferred_tz, date_type)
            ELSE multiple
       ELSE IF Cardinality(aw) > 2 THEN multiple
       ELSE ResolveWithPrimary(ctx, cands, CHOOSE i \in aw : TRUE, inferred_tz, date_type)

_handle_naive_pair_with_gps(cand1, cand2, gps_off, ctx, cands, date_type) ==
    LET t1 == cand1.representative_value
        t2 == cand2.representative_value
    IN IF Abs((t1.wall + gps_off) - t2.wall) < 5
       THEN Result(Some(AsZone(ReplaceTzUtc(t1), gps_off)), ctx, cands)
       ELSE IF Abs((t2.wall + gps_off) - t1.wall) < 5
       THEN Result(Some(AsZone(ReplaceTzUtc(t2), gps_off)), ctx, cands)
       ELSE Result(None,
                   record_conflict(ctx, date_type, "cannot be explained by the GPS-inferred timezone"),
                   cands)

RECURSIVE AddAll(_, _, _)
AddAll(cands, tol, new) ==
    IF new = <<>> THEN cands ELSE AddAll(add_candidate(cands, tol, Head(new)), tol, Tail(new))

\* variant: the GPS timezone is never attached
Localized_never(v, inferred_tz) == v

Localized(v, inferred_tz) ==
    IF IsNone(inferred_tz) THEN v ELSE ReplaceTzZone(v, Get(inferred_tz))

_resolve_with_naive_only(ctx, cands, inferred_tz, date_type) ==
    LET ncs == naive_candidates(cands)
    IN IF ncs = <<>> THEN Result(None, ctx, cands)
       ELSE IF Len(ncs) = 1
       THEN Result(Some(Localized(ncs[1].representative_value, inferred_tz)), ctx, cands)
       ELSE IF Len(ncs) = 2 /\ ~IsNone(inferred_tz)
       THEN _handle_naive_pair_with_gps(ncs[1], ncs[2], Get(inferred_tz), ctx, cands, date_type)
       ELSE LET loose_container == AddAll(<<>>, 3600 + 60, ncs)
            IN IF Len(loose_container) = 1
               THEN Result(Some(Localized(loose_container[1].representative_value, inferred_tz)),
                           ctx, cands)
               ELSE Result(None,
                           record_conflict(ctx, date_type,
                               "Multiple distinct naive datetime candidates found"),
                           cands)

\* process: "if container.aware_candidates: ... else: ..."
Resolve(ctx, cands, inferred_tz, date_type) ==
    IF AwareIndices(cands) # {}
    THEN _resolve_with_aware(ctx, cands, inferred_tz, date_type)
    ELSE _resolve_with_naive_only(ctx, cands, inferred_tz, date_type)

\* a process that gives up as soon as the context holds a conflict for any field
Commit_unless_conflicts(r, date_type) ==
    IF IsNone(r.value) \/ (\E f \in Fields : InConflicts(r.ctx, f)) THEN r
    ELSE Result(r.value,
                set_value(r.ctx, date_type, DateTimeArgument(PyDt(Get(r.value)), date_type)),
                r.cands)

\* process: "if final_dt: context.set_value(...)"
Commit(r, date_type) ==
    IF IsNone(r.value) THEN r
    ELSE Result(r.value,
                set_value(r.ctx, date_type, DateTimeArgument(PyDt(Get(r.value)), date_type)),
                r.cands)

\* process, from "inferred_tz = self.infer_timezone(context)" on
ResolveAndCommit(ctx, cands, lookup, date_type) ==
    Commit(Resolve(ctx, cands, infer_timezone(ctx, lookup), date_type), date_type)

\* process, the filename candidates of date_type "taken"
AddFilenameCandidates(ctx, cands, ents, date_type) ==
    IF date_type # "taken" THEN Result(None, ctx, cands)
    ELSE LET f == _get_filename_date_candidates(ctx, ents, date_type)
         IN IF IsNone(f.candidates) THEN Result(None, f.ctx, cands)
            ELSE Result(None, f.ctx, AddAll(cands, 20, Get(f.candidates)))

\* process as a whole
ResolveAndCommitResult(f, lookup, date_type) == ResolveAndCommit(f.ctx, f.cands, lookup, date_type)

DateTimeAndZoneMergeStep_process(ctx, ents, lookup, date_type) ==
    ResolveAndCommitResult(
        AddFilenameCandidates(ctx,
                              _pre_resolve_google_xmp_utc_heuristic(
                                  _get_candidate_container(_get_metadata_keys(date_type), ents)),
                              ents, date_type),
        lookup, date_type)

----------------------------------------------------------------------------
(* Fallback steps and WhatsappDateCorrectionStep *)

Finalized(ctx, field_name) == field_name \in ctx.finalized_fields

\* dt.astimezone(ZoneInfo): a naive dt is read as system local time
AsZoneLocal(dt, o, local_off) ==
    IF dt.aware THEN AsZone(dt, o) ELSE AsZone(Aware(dt.wall, local_off), o)

\* the step's own infer_timezone lets an exception of timezone_at escape
FallbackDateToGpsDateTimeStep_raises(ctx, lookup) ==
    /\ ~Finalized(ctx, "taken") /\ ~InConflicts(ctx, "taken")
    /\ ~get_value_raises(ctx, "Composite:GPSDateTime")
    /\ ~IsNone(get_value(ctx, "Composite:GPSDateTime"))
    /\ Get(get_value(ctx, "Composite:GPSDateTime")).type = "datetime"
    /\ LookupNeeded(ctx)
    /\ lookup.outcome = "raises"

FallbackDateToGpsDateTimeStep_process(ctx, lookup, local_off) ==
    IF Finalized(ctx, "taken") \/ InConflicts(ctx, "taken") THEN ctx
    ELSE LET gps_datetime_arg == IF get_value_raises(ctx, "Composite:GPSDateTime") THEN None
                                 ELSE get_value(ctx, "Composite:GPSDateTime")
         IN IF IsNone(gps_datetime_arg) \/ Get(gps_datetime_arg).type # "datetime" THEN ctx
            ELSE LET inferred_tz == infer_timezone(ctx, lookup)
                     d == Get(gps_datetime_arg).dt
                     v == IF IsNone(inferred_tz) THEN d
                          ELSE AsZoneLocal(d, Get(inferred_tz), local_off)
                 IN set_value(ctx, "taken", DateTimeArgument(PyDt(v), "taken"))

\* variant: the fallback is applied to a field that has a conflict
FallbackDateTimeStep_process_over_conflict(ctx, field_name, fallback_key) ==
    IF Finalized(ctx, field_name) THEN ctx
    ELSE IF get_value_raises(ctx, fallback_key) THEN ctx
    ELSE LET fallback_arg == get_value(ctx, fallback_key)
         IN IF IsNone(fallback_arg) \/ ~Truthy(Get(fallback_arg)) THEN ctx
            ELSE set_value(ctx, field_name, DateTimeArgument(Get(fallback_arg), field_name))

\* variant: the dependency error is recorded against the target field
FallbackDateTimeStep_process_reports_dependency(ctx, field_name, fallback_key) ==
    IF Finalized(ctx, field_name) THEN ctx
    ELSE IF InConflicts(ctx, field_name) THEN ctx
    ELSE IF get_value_raises(ctx, fallback_key)
    THEN record_conflict(ctx, field_name, "Dependency error")
    ELSE LET fallback_arg == get_value(ctx, fallback_key)
         IN IF IsNone(fallback_arg) \/ ~Truthy(Get(fallback_arg)) THEN ctx
            ELSE set_value(ctx, field_name, DateTimeArgument(Get(fallback_arg), field_name))

FallbackDateTimeStep_process(ctx, field_name, fallback_key) ==
    IF Finalized(ctx, field_name) THEN ctx
    ELSE IF InConflicts(ctx, field_name) THEN ctx
    ELSE IF get_value_raises(ctx, fallback_key) THEN ctx
    ELSE LET fallback_arg == get_value(ctx, fallback_key)
         IN IF IsNone(fallback_arg) \/ ~Truthy(Get(fallback_arg)) THEN ctx
            ELSE set_value(ctx, field_name, DateTimeArgument(Get(fallback_arg), field_name))

TakenOrModifiedHandled(ctx) ==
    \/ Finalized(ctx, "taken") \/ InConflicts(ctx, "taken")
    \/ Finalized(ctx, "modified") \/ InConflicts(ctx, "modified")

\* entry.value_str of the filename entries with a truthy value_str
Filenames(ents) ==
    LET es == SelectSeq(get_entries_by_keys(ents, FilenameKeys),
                        LAMBDA e : ~IsNone(e.value_str) /\ Truthy(PyStr(Get(e.value_str))))
    IN [i \in 1..Len(es) |-> Get(es[i].value_str)]

\* re.search(r'(20[0-2]\d|19[8-9]\d)(0[1-9]|1[0-2])(0[1-9]|[12]\d|3[01])', fname)
RoughRegexMatches(fname) ==
    /\ fname.fmt \in {"IMG-%Y%m%d-WA0001.jpg", "IMG_%Y%m%d_%H%M%S.jpg"}
    /\ fname.n[1] >= 1980 /\ fname.n[1] <= 2029
    /\ fname.n[2] >= 1 /\ fname.n[2] <= 12
    /\ fname.n[3] >= 1 /\ fname.n[3] <= 31

Noon(fname) == Naive(WallSeconds(fname.n[1], fname.n[2], fname.n[3], 12, 0, 0))

\* the first filename whose match is a date datetime() accepts, or 0
FirstRoughDate(filenames) ==
    LET ok == {i \in 1..Len(filenames) :
                  /\ RoughRegexMatches(filenames[i])
                  /\ ValidDate(filenames[i].n[1], filenames[i].n[2], filenames[i].n[3])}
    IN IF ok = {} THEN 0 ELSE CHOOSE i \in ok : \A j \in ok : i <= j

FallbackRoughDateFromFilename_process(ctx, ents) ==
    IF TakenOrModifiedHandled(ctx) THEN ctx
    ELSE LET filenames == Filenames(ents)
             i == FirstRoughDate(filenames)
         IN IF i = 0 THEN ctx
            ELSE LET dt_value == Noon(filenames[i])
                     c1 == set_value(ctx, "taken", DateTimeArgument(PyDt(dt_value), "taken"))
                 IN set_value(c1, "modified", DateTimeArgument(PyDt(dt_value), "modified"))

FallbackFileModifyDateStep_process(ctx, ents) ==
    IF TakenOrModifiedHandled(ctx) THEN ctx
    ELSE LET es == get_entries_by_keys(ents, {"File:FileModifyDate"})
         IN IF es = <<>> THEN ctx
            ELSE IF IsNone(es[1].value_dt) THEN ctx
            ELSE LET file_date == Get(es[1].value_dt)
                     c1 == set_value(ctx, "taken", DateTimeArgument(PyDt(file_date), "taken"))
                 IN set_value(c1, "modified", DateTimeArgument(PyDt(file_date), "modified"))

\* re.search(r'(?:IMG|VID|AUD|PTT)-(\d{8})-WA\d+', val, re.IGNORECASE)
WhatsappRegexMatches(val) == val.fmt = "IMG-%Y%m%d-WA0001.jpg"

\* wa_date: noon of the first WhatsApp filename whose digits strptime accepts
wa_date(ents) ==
    LET filenames == Filenames(ents)
        ok == {i \in 1..Len(filenames) :
                  /\ WhatsappRegexMatches(filenames[i])
                  /\ ValidDate(filenames[i].n[1], filenames[i].n[2], filenames[i].n[3])}
    IN IF ok = {} THEN None
       ELSE Some(Noon(filenames[CHOOSE i \in ok : \A j \in ok : i <= j]))

\* abs(a - b).days of two naive datetimes
DiffDays(a, b) == Abs(a.wall - b.wall) \div 86400

\* mod_arg.value if isinstance(mod_arg, DateTimeArgument) else None, mod_arg being
\* what get_value returns
mod_date(ctx) ==
    LET mod_arg == get_value(ctx, "modified")
    IN IF ~IsNone(mod_arg) /\ Get(mod_arg).type = "DateTimeArgument" THEN mod_arg ELSE None

WhatsappDateCorrectionStep_process(ctx, ents) ==
    LET current_date == get_value(ctx, "taken")
        wa == wa_date(ents)
    IN IF IsNone(wa) THEN ctx
       ELSE LET should_override ==
                    IF IsNone(current_date) THEN TRUE
                    ELSE DiffDays(ReplaceTzNone(Get(current_date).dt), Get(wa)) > 4
            IN IF ~should_override THEN ctx
               ELSE LET c1 == set_value(ctx, "taken", DateTimeArgument(PyDt(Get(wa)), "taken"))
                        md == mod_date(c1)
                    IN IF IsNone(md) \/ DiffDays(ReplaceTzNone(Get(md).dt), Get(wa)) > 4
                       THEN set_value(c1, "modified", DateTimeArgument(PyDt(Get(wa)), "modified"))
                       ELSE c1

----------------------------------------------------------------------------
(* MergePipeline: the default step list and the inputs of one media file *)

MaxEntries == 3
MaxRuns == 2

Step(cls, field_name, fallback_key) ==
    [cls |-> cls, field_name |-> field_name, fallback_key |-> fallback_key]

\* get_default_pipeline
steps ==
    << Step("GPSMergeStep", "", ""),
       Step("GPSDateTimeMergeStep", "", ""),
       Step("DateTimeAndZoneMergeStep", "taken", ""),
       Step("DateTimeAndZoneMergeStep", "modified", ""),
       Step("FallbackDateToGpsDateTimeStep", "", ""),
       Step("FallbackDateTimeStep", "modified", "taken"),
       Step("FallbackDateTimeStep", "taken", "modified"),
       Step("FallbackFileModifyDateStep", "", ""),
       Step("FallbackRoughDateFromFilename", "", ""),
       Step("WhatsappDateCorrectionStep", "", "") >>

\* 2023-06-15T12:00:00 as wall seconds
T0 == WallSeconds(2023, 6, 15, 12, 0, 0)

Template(key, vs, vd, vr) == Entry(0, key, vs, vd, vr)

GpsTemplates ==
    { Template("Composite:GPSLatitude", None, None, Some(520000000)),
      Template("Composite:GPSLatitude", None, None, Some(520000008)),
      Template("Composite:GPSLatitude", None, None, Some(520000016)),
      Template("google:geoDataLatitude", None, None, Some(521000000)),
      Template("Composite:GPSLongitude", None, None, Some(45000000)),
      Template("google:geoDataLongitude", None, None, Some(46000000)) }

GpsDateTimeTemplates ==
    { Template("Composite:GPSDateTime", None, Some(Aware(T0 - 7200, 0)), None),
      Template("Composite:GPSDateTime", None, Some(Aware(T0, 7200)), None),
      Template("Composite:GPSDateTime", None, Some(Naive(T0 - 7200)), None),
      Template("Composite:GPSDateTime", Some(Str("0000:00:00 00:00:00Z", <<>>)), None, None) }

DateTemplates ==
    { Template("XMP:DateTimeOriginal", None, Some(Aware(T0, 0)), None),
      Template("XMP:DateTimeOriginal", None, Some(Aware(T0 - 7200 + 30, 0)), None),
      Template("google:photoTakenTime", None, Some(Aware(T0 - 7200, 0)), None),
      Template("XMP:CreateDate", None, Some(Naive(T0)), None),
      Template("XMP:CreateDate", None, Some(Naive(T0 + 4 * 86400 + 6 * 3600)), None),
      Template("XMP:CreateDate", None, Some(Naive(T0 + 6 * 86400)), None),
      Template("XMP:CreateDate", None, Some(Aware(T0, 7200)), None),
      Template("XMP:ModifyDate", None, Some(Naive(T0 + 86400)), None),
      Template("File:FileModifyDate", None, Some(Naive(T0 + 2 * 86400)), None) }

FilenameTemplates ==
    { Template("google:title", Some(WaName(2023, 6, 15)), None, None),
      Template("google:title", Some(WaName(2023, 2, 30)), None, None),
      Template("exiftool:SourceFile", Some(CamName(2023, 6, 15, 12, 0, 5)), None, None) }

EntryUniverse == GpsTemplates \cup GpsDateTimeTemplates \cup DateTemplates \cup FilenameTemplates

\* the entries of the sources, in list order, ids as the database assigns them
EntryLists(universe, n) ==
    { [i \in 1..Len(s) |-> [s[i] EXCEPT !.id = i]] :
        s \in UNION { [1..k -> universe] : k \in 0..n } }

Permutations3(a, b, c) ==
    { <<a, b, c>>, <<a, c, b>>, <<b, a, c>>, <<b, c, a>>, <<c, a, b>>, <<c, b, a>> }

\* iteration orders of a set of floats: only the composite latitudes come in
\* numbers large enough for the order to be observed
SetOrders ==
    { o \o <<521000000, 45000000, 46000000>> :
        o \in Permutations3(520000000, 520000008, 520000016) }

Lookup(outcome, off) == [outcome |-> outcome, off |-> off]
Lookups == { Lookup("none", 0), Lookup("zone", 7200), Lookup("raises", 0) }
LocalOffsets == { 0, 3600 }

Environment(lookup, set_order, local_off) ==
    [lookup |-> lookup, set_order |-> set_order, local_off |-> local_off]

DefaultEnvironment ==
    Environment(Lookup("none", 0),
                <<520000000, 520000008, 520000016, 521000000, 45000000, 46000000>>, 0)

\* the answers of the environment that the merge of these entries can observe
Environments(ents) ==
    LET keys == {ents[i].key : i \in 1..Len(ents)}
        count(k) == Cardinality({i \in 1..Len(ents) : ents[i].key = k})
        located == /\ keys \cap {"Composite:GPSLatitude", "google:geoDataLatitude"} # {}
                   /\ keys \cap {"Composite:GPSLongitude", "google:geoDataLongitude"} # {}
        naive_gps == \E i \in 1..Len(ents) :
                        /\ ents[i].key = "Composite:GPSDateTime"
                        /\ ~IsNone(ents[i].value_dt)
                        /\ ~Get(ents[i].value_dt).aware
    IN { Environment(l, o, z) :
           l \in (IF located THEN Lookups ELSE {DefaultEnvironment.lookup}),
           o \in (IF count("Composite:GPSLatitude") >= 2 THEN SetOrders
                  ELSE {DefaultEnvironment.set_order}),
           z \in (IF located /\ naive_gps THEN LocalOffsets
                  ELSE {DefaultEnvironment.local_off}) }

----------------------------------------------------------------------------
(* MergePipeline.run as a state machine: one action per step of the list,
   DateTimeAndZoneMergeStep.process in its four phases *)

Context ==
    [merged_data |-> merged_data, conflicts |-> conflicts,
     finalized_fields |-> finalized_fields, trace |-> trace]

Becomes(ctx) ==
    /\ merged_data' = ctx.merged_data
    /\ conflicts' = ctx.conflicts
    /\ finalized_fields' = ctx.finalized_fields
    /\ trace' = ctx.trace

Idle == [i |-> 0, at |-> "idle"]
At(cls, at) == pc.i \in 1..Len(steps) /\ steps[pc.i].cls = cls /\ pc.at = at
NextStep == [i |-> pc.i + 1, at |-> "process"]
Phase(at) == [pc EXCEPT !.at = at]

\* what the caller of run holds afterwards: the context, or an exception
Outcome(ctx) ==
    [raised |-> FALSE, merged_data |-> ctx.merged_data, conflicts |-> ctx.conflicts,
     finalized_fields |-> ctx.finalized_fields]
Raised ==
    [raised |-> TRUE, merged_data |-> NewContext.merged_data,
     conflicts |-> NewContext.conflicts, finalized_fields |-> {}]

\* a step that runs to its end on a context and hands over to the next step
Processes(ctx) ==
    /\ Becomes(ctx)
    /\ prev' = Context
    /\ last' = pc
    /\ pc' = NextStep
    /\ UNCHANGED <<entries, env, run, returned, container, container_vars, export_vars, worker_vars, sidecar_vars>>

\* context = MergeContext(sources)
MergePipeline_run ==
    /\ pc = Idle
    /\ run < MaxRuns
    /\ Becomes(NewContext)
    /\ pc' = [i |-> 1, at |-> "process"]
    /\ prev' = NewContext
    /\ last' = pc
    /\ container' = <<>>
    /\ UNCHANGED <<entries, env, run, returned, container_vars, export_vars, worker_vars, sidecar_vars>>

GPSMergeStep ==
    /\ At("GPSMergeStep", "process")
    /\ Processes(GPSMergeStep_process(Context, entries, env.set_order))

GPSDateTimeMergeStep ==
    /\ At("GPSDateTimeMergeStep", "process")
    /\ Processes(GPSDateTimeMergeStep_process(Context, entries))

\* a phase of DateTimeAndZoneMergeStep.process that leaves the container behind
DtzPhase(ctx, cands, next_pc) ==
    /\ Becomes(ctx)
    /\ container' = cands
    /\ last' = pc
    /\ pc' = next_pc
    /\ UNCHANGED <<entries, env, run, returned, container_vars, export_vars, worker_vars, sidecar_vars>>

DtzResult(r, next_pc) == DtzPhase(r.ctx, r.cands, next_pc)

DateTimeAndZoneMergeStep_gather ==
    /\ At("DateTimeAndZoneMergeStep", "process")
    /\ prev' = Context
    /\ DtzPhase(Context,
                _get_candidate_container(_get_metadata_keys(steps[pc.i].field_name), entries),
                Phase("heuristic"))

DateTimeAndZoneMergeStep_heuristic ==
    /\ At("DateTimeAndZoneMergeStep", "heuristic")
    /\ UNCHANGED prev
    /\ DtzPhase(Context, _pre_resolve_google_xmp_utc_heuristic(container), Phase("filenames"))

DateTimeAndZoneMergeStep_filenames ==
    /\ At("DateTimeAndZoneMergeStep", "filenames")
    /\ UNCHANGED prev
    /\ DtzResult(AddFilenameCandidates(Context, container, entries, steps[pc.i].field_name),
                 Phase("resolve"))

DateTimeAndZoneMergeStep_resolve ==
    /\ At("DateTimeAndZoneMergeStep", "resolve")
    /\ UNCHANGED prev
    /\ DtzResult(ResolveAndCommit(Context, container, env.lookup, steps[pc.i].field_name),
                 NextStep)

\* an exception of timezone_at leaves run through this step
FallbackDateToGpsDateTimeStep ==
    /\ At("FallbackDateToGpsDateTimeStep", "process")
    /\ prev' = Context
    /\ last' = pc
    /\ IF FallbackDateToGpsDateTimeStep_raises(Context, env.lookup)
       THEN /\ pc' = Idle
            /\ run' = run + 1
            /\ returned' = Append(returned, Raised)
            /\ UNCHANGED ctx_vars
       ELSE /\ Becomes(FallbackDateToGpsDateTimeStep_process(Context, env.lookup, env.local_off))
            /\ pc' = NextStep
            /\ UNCHANGED <<run, returned>>
    /\ UNCHANGED <<entries, env, container, container_vars, export_vars, worker_vars, sidecar_vars>>

FallbackDateTimeStep ==
    /\ At("FallbackDateTimeStep", "process")
    /\ Processes(FallbackDateTimeStep_process(Context, steps[pc.i].field_name,
                                              steps[pc.i].fallback_key))

FallbackFileModifyDateStep ==
    /\ At("FallbackFileModifyDateStep", "process")
    /\ Processes(FallbackFileModifyDateStep_process(Context, entries))

FallbackRoughDateFromFilename ==
    /\ At("FallbackRoughDateFromFilename", "process")
    /\ Processes(FallbackRoughDateFromFilename_process(Context, entries))

WhatsappDateCorrectionStep ==
    /\ At("WhatsappDateCorrectionStep", "process")
    /\ Processes(WhatsappDateCorrectionStep_process(Context, entries))

\* return context
MergePipeline_return ==
    /\ pc.i = Len(steps) + 1
    /\ pc' = Idle
    /\ run' = run + 1
    /\ returned' = Append(returned, Outcome(Context))
    /\ UNCHANGED <<entries, ctx_vars, container, prev, last, env, container_vars, export_vars, worker_vars, sidecar_vars>>

PipelineInit(ents, e) ==
    /\ entries = ents
    /\ env = e
    /\ merged_data = NewContext.merged_data
    /\ conflicts = NewContext.conflicts
    /\ finalized_fields = {}
    /\ trace = {}
    /\ pc = Idle
    /\ container = <<>>
    /\ prev = NewContext
    /\ last = Idle
    /\ run = 0
    /\ returned = <<>>

ContainerUnused ==
    /\ contA = <<>> /\ contB = <<>> /\ todoA = <<>> /\ todoB = <<>> /\ tolerance = 0

ExportUnused ==
    /\ media_files = <<>> /\ batches = <<>> /\ processed_media_ids = {}
    /\ jobs = <<>> /\ batch_pc = <<>> /\ conflict_log = {} /\ files = {} /\ handed = {}

WorkersUnused == heap = <<>> /\ workers = <<>>

SidecarUnused == google_json = <<>> /\ extracted = <<>>

Init ==
    /\ \E ents \in EntryLists(EntryUniverse, MaxEntries) :
           \E e \in Environments(ents) : PipelineInit(ents, e)
    /\ ContainerUnused
    /\ ExportUnused
    /\ WorkersUnused
    /\ SidecarUnused

Next ==
    \/ MergePipeline_run
    \/ GPSMergeStep
    \/ GPSDateTimeMergeStep
    \/ DateTimeAndZoneMergeStep_gather
    \/ DateTimeAndZoneMergeStep_heuristic
    \/ DateTimeAndZoneMergeStep_filenames
    \/ DateTimeAndZoneMergeStep_resolve
    \/ FallbackDateToGpsDateTimeStep
    \/ FallbackDateTimeStep
    \/ FallbackFileModifyDateStep
    \/ FallbackRoughDateFromFilename
    \/ WhatsappDateCorrectionStep
    \/ MergePipeline_return

Spec == Init /\ [][Next]_vars

----------------------------------------------------------------------------
(* The same pipeline on a media file with or without a GPS fix, over the date
   sources that the timezone logic tells apart: a UTC-flagged instant, naive
   wall clocks that agree with it or not, an aware local time, an EXIF
   (date, offset) pair, a modify date and two file names with a timestamp *)

MaxDated == 3

\* an offset string "+HH:MM" / "-HH:MM" holds <<sign, hh, mm>>
OffsetString(sign, hh, mm) == Str("%z", <<sign, hh, mm>>)

GpsFix ==
    << RealEntry(1, "Composite:GPSLatitude", 520000000),
       RealEntry(2, "Composite:GPSLongitude", 45000000) >>

DatedTemplates ==
    { Template("google:photoTakenTime", None, Some(Aware(T0 - 7200, 0)), None),
      Template("XMP:CreateDate", None, Some(Naive(T0)), None),
      Template("EXIF:CreateDate", None, Some(Naive(T0 - 7200)), None),
      Template("EXIF:CreateDate", None, Some(Naive(T0 + 6 * 86400)), None),
      Template("XMP:CreateDate", None, Some(Aware(T0, 7200)), None),
      Template("EXIF:DateTimeOriginal", None, Some(Naive(T0)), None),
      Template("EXIF:DateTimeOriginal", None, Some(Naive(T0 + 30)), None),
      Template("EXIF:CreateDate", None, Some(Naive(T0 + 600)), None),
      Template("EXIF:CreateDate", None, Some(Naive(T0 + 3600)), None),
      Template("EXIF:OffsetTimeOriginal", Some(OffsetString(1, 2, 0)), None, None),
      Template("EXIF:OffsetTimeOriginal", Some(OffsetString(-1, 3, 30)), None, None),
      Template("EXIF:OffsetTimeOriginal", Some(OffsetString(1, 15, 0)), None, None),
      Template("XMP:ModifyDate", None, Some(Naive(T0 + 86400)), None),
      Template("exiftool:SourceFile", Some(CamName(2023, 6, 15, 12, 0, 5)), None, None),
      Template("google:title", Some(CamName(2023, 6, 17, 9, 0, 0)), None, None) }

\* what timezone_at and ZoneInfo answer for the fix
LocatedLookups == Lookups \cup { Lookup("zone", -18000) }

\* the entries of the sources: the fix, if any, then the date entries
WithFix(fix, dated) ==
    fix \o [i \in 1..Len(dated) |-> [dated[i] EXCEPT !.id = Len(fix) + i]]

LocatedInit ==
    /\ \E dated \in EntryLists(DatedTemplates, MaxDated) :
           \/ PipelineInit(WithFix(<<>>, dated), DefaultEnvironment)
           \/ \E l \in LocatedLookups :
                  PipelineInit(WithFix(GpsFix, dated),
                               Environment(l, DefaultEnvironment.set_order,
                                           DefaultEnvironment.local_off))
    /\ ContainerUnused
    /\ ExportUnused
    /\ WorkersUnused
    /\ SidecarUnused

SpecLocated == LocatedInit /\ [][Next]_vars

----------------------------------------------------------------------------
(* DateTimeCandidateContainer on its own: two containers of one tolerance are
   fed the same candidates, each in an order of its own *)

MaxCandidates == 3

CandidateUniverse ==
    { Candidate(Naive(T0), {"XMP:CreateDate"}, {1}),
      Candidate(Naive(T0 + 15), {"EXIF:CreateDate"}, {2}),
      Candidate(Naive(T0 + 30), {"XMP-xmp:CreateDate"}, {3}),
      Candidate(Aware(T0, 0), {"XMP:DateTimeOriginal"}, {4}),
      Candidate(Aware(T0 + 7215, 7200), {"QuickTime:CreationDate"}, {5}),
      Candidate(Aware(T0 + 15, 0), {"google:photoTakenTime"}, {6}),
      \* what _get_candidate makes of one EXIF:DateTimeOriginal entry (id 7): the
      \* pair with EXIF:OffsetTimeOriginal (id 8), and the date on its own
      Candidate(Aware(T0 + 10, 7200),
                {PairKey("EXIF:DateTimeOriginal", "EXIF:OffsetTimeOriginal").name}, {7, 8}),
      Candidate(Naive(T0 + 10), {"EXIF:DateTimeOriginal"}, {7}) }

Tolerances == { 5, 20 }

\* the orders in which the members of a set can be added
Orderings(S) ==
    { s \in [1..Cardinality(S) -> S] : \A i, j \in 1..Cardinality(S) : i # j => s[i] # s[j] }

ContainerInit ==
    /\ \E S \in SUBSET CandidateUniverse :
           /\ Cardinality(S) <= MaxCandidates
           /\ \E a, b \in Orderings(S) : todoA = a /\ todoB = b
    /\ tolerance \in Tolerances
    /\ contA = <<>>
    /\ contB = <<>>
    /\ PipelineInit(<<>>, DefaultEnvironment)
    /\ ExportUnused
    /\ WorkersUnused
    /\ SidecarUnused

\* contA.add_candidate(c) for the next candidate of A's order
AddCandidateA ==
    /\ todoA # <<>>
    /\ contA' = add_candidate(contA, tolerance, Head(todoA))
    /\ todoA' = Tail(todoA)
    /\ UNCHANGED <<contB, todoB, tolerance, pipeline_vars, export_vars, worker_vars, sidecar_vars>>

\* contB.add_candidate(c) for the next candidate of B's order
AddCandidateB ==
    /\ todoB # <<>>
    /\ contB' = add_candidate(contB, tolerance, Head(todoB))
    /\ todoB' = Tail(todoB)
    /\ UNCHANGED <<contA, todoA, tolerance, pipeline_vars, export_vars, worker_vars, sidecar_vars>>

ContainerNext == AddCandidateA \/ AddCandidateB

SpecContainer == ContainerInit /\ [][ContainerNext]_vars

----------------------------------------------------------------------------
(* export_pipe: the process_export_batch calls of one export_main run, each in
   a thread of the pool *)

MaxMedia == 2
MaxLocations == 3
BATCH_SIZE == 2

MediaIds == 1..MaxMedia

\* what pipeline.run and get_all_arguments give for the sources of a media file:
\* no sources at all, an exception, a context with conflicts, a clean context
\* with or without export arguments
MergeOutcomes == {"no_sources", "raises", "conflicts", "arguments", "no_arguments"}

RelativePaths == {"2023/a.jpg", "2023/b.jpg"}

Location(id, media_file) == [id |-> id, media_file |-> media_file]

Min(a, b) == IF a < b THEN a ELSE b

\* locations_to_export[i:i + BATCH_SIZE] for i in range(0, total_files, BATCH_SIZE)
Batches(locations) ==
    LET n == (Len(locations) + BATCH_SIZE - 1) \div BATCH_SIZE
    IN [b \in 1..n |-> SubSeq(locations, (b - 1) * BATCH_SIZE + 1,
                              Min(b * BATCH_SIZE, Len(locations)))]

FileExportJob(media_file, source_location_to_copy, export_arguments, relative_path, status) ==
    [media_file |-> media_file, source_location_to_copy |-> source_location_to_copy,
     export_arguments |-> export_arguments, relative_path |-> relative_path,
     final_output_path |-> None, status |-> status]

\* a path under export_dir: directory, relative path, the counter of "-[n]"
Path(dir, rel, n) == [dir |-> dir, rel |-> rel, n |-> n]

Exists(fs, path) == \E f \in fs : f.path = path

\* shutil.copyfile / exiftool -o: the file at path now holds this media file
WriteFile(fs, path, media_file) ==
    {f \in fs : f.path # path} \cup {[path |-> path, content |-> media_file]}

find_unique_filepath(fs, destination_path) ==
    IF ~Exists(fs, destination_path) THEN destination_path
    ELSE LET free == {n \in 1..(Cardinality(fs) + 1) :
                         ~Exists(fs, [destination_path EXCEPT !.n = n])}
         IN [destination_path EXCEPT !.n = CHOOSE n \in free : \A k \in free : n <= k]

BatchPc(at, i, path) == [at |-> at, i |-> i, path |-> path]

\* the first job from index i on with this status, or 0
NextWithStatus(js, i, status) ==
    LET idx == {k \in i..Len(js) : js[k].status = status}
    IN IF idx = {} THEN 0 ELSE CHOOSE k \in idx : \A l \in idx : k <= l

\* process_export_batch, step 3: the next job to give a final path, else the writer
ToFinalPaths(js, i) ==
    IF NextWithStatus(js, i, "PENDING_EXPORT") # 0
    THEN BatchPc("final_output_path", NextWithStatus(js, i, "PENDING_EXPORT"), None)
    ELSE BatchPc("write_metadata_batch", 0, None)

\* process_export_batch, step 2: the next conflicted job, else step 3
ToConflicts(js, i) ==
    IF NextWithStatus(js, i, "CONFLICT") # 0
    THEN BatchPc("log_conflict", NextWithStatus(js, i, "CONFLICT"), None)
    ELSE ToFinalPaths(js, 1)

\* one iteration of the loop of _prepare_export_jobs; a media file without
\* sources leaves result_context None, whose .conflicts raises
_prepare_export_jobs ==
    \E b \in DOMAIN batches :
        /\ batch_pc[b].at = "prepare"
        /\ LET i == batch_pc[b].i
               loc == batches[b][i]
               m == loc.media_file
               onwards(js) == IF i < Len(batches[b]) THEN BatchPc("prepare", i + 1, None)
                              ELSE ToConflicts(js, 1)
               job == FileExportJob(m, loc, media_files[m].merge = "arguments",
                                    media_files[m].relative_path,
                                    IF media_files[m].merge = "conflicts" THEN "CONFLICT"
                                    ELSE "PENDING_EXPORT")
           IN IF m \in processed_media_ids
              THEN /\ jobs' = [jobs EXCEPT ![b] = Append(@, FileExportJob(m, loc, FALSE, "", "SKIPPED"))]
                   /\ batch_pc' = [batch_pc EXCEPT ![b] = onwards(jobs'[b])]
                   /\ UNCHANGED processed_media_ids
              ELSE /\ processed_media_ids' = processed_media_ids \cup {m}
                   /\ IF media_files[m].merge \in {"raises", "no_sources"}
                      THEN /\ batch_pc' = [batch_pc EXCEPT ![b] = BatchPc("raised", i, None)]
                           /\ UNCHANGED jobs
                      ELSE /\ jobs' = [jobs EXCEPT ![b] = Append(@, job)]
                           /\ batch_pc' = [batch_pc EXCEPT ![b] = onwards(jobs'[b])]
        /\ UNCHANGED <<media_files, batches, conflict_log, files, handed,
                       pipeline_vars, container_vars, worker_vars, sidecar_vars>>

\* a conflicted job is logged, written to conflict_fp and given a review path
log_conflict ==
    \E b \in DOMAIN batches :
        /\ batch_pc[b].at = "log_conflict"
        /\ LET job == jobs[b][batch_pc[b].i]
               conflict_path == Path("conflicted_files_for_review", job.relative_path, 0)
           IN /\ conflict_log' = conflict_log \cup {job.source_location_to_copy.id}
              /\ batch_pc' = [batch_pc EXCEPT ![b] =
                                 BatchPc("copy_file_task", batch_pc[b].i,
                                         Some(find_unique_filepath(files, conflict_path)))]
        /\ UNCHANGED <<media_files, batches, processed_media_ids, jobs, files, handed,
                       pipeline_vars, container_vars, worker_vars, sidecar_vars>>

\* the copy of a conflicted job's source file; an error is returned, not raised
copy_file_task ==
    \E b \in DOMAIN batches :
        /\ batch_pc[b].at = "copy_file_task"
        /\ LET k == batch_pc[b].i
               job == jobs[b][k]
           IN /\ \E copied \in BOOLEAN :
                     files' = IF copied
                              THEN WriteFile(files, Get(batch_pc[b].path), job.media_file)
                              ELSE files
              /\ handed' = handed \cup {[batch |-> b, job |-> k, to |-> "copy_file_task"]}
              /\ batch_pc' = [batch_pc EXCEPT ![b] = ToConflicts(jobs[b], k + 1)]
        /\ UNCHANGED <<media_files, batches, processed_media_ids, jobs, conflict_log,
                       pipeline_vars, container_vars, worker_vars, sidecar_vars>>

\* job.final_output_path = find_unique_filepath(initial_path)
set_final_output_path ==
    \E b \in DOMAIN batches :
        /\ batch_pc[b].at = "final_output_path"
        /\ LET k == batch_pc[b].i
               initial_path == Path("", jobs[b][k].relative_path, 0)
           IN /\ jobs' = [jobs EXCEPT ![b][k].final_output_path =
                              Some(find_unique_filepath(files, initial_path))]
              /\ batch_pc' = [batch_pc EXCEPT ![b] = ToFinalPaths(jobs[b], k + 1)]
        /\ UNCHANGED <<media_files, batches, processed_media_ids, conflict_log, files, handed,
                       pipeline_vars, container_vars, worker_vars, sidecar_vars>>

WithStatus(js, status) == {k \in 1..Len(js) : js[k].status = status}

\* write_metadata_batch, the first loop: a job without arguments is a plain copy
\* and is marked SUCCESS, copy_file_task raising nothing
RECURSIVE SimpleCopies(_, _, _, _)
SimpleCopies(js, fs, ok, k) ==
    IF k > Len(js) THEN [jobs |-> js, files |-> fs]
    ELSE IF js[k].status = "PENDING_EXPORT" /\ ~js[k].export_arguments
    THEN SimpleCopies([js EXCEPT ![k].status = "SUCCESS"],
                      IF ok[k] THEN WriteFile(fs, Get(js[k].final_output_path), js[k].media_file)
                      ELSE fs,
                      ok, k + 1)
    ELSE SimpleCopies(js, fs, ok, k + 1)

\* the batch run of exiftool: -o writes a file unless the path exists or the
\* file cannot be processed, and any such error fails the run
RECURSIVE BatchRun(_, _, _, _, _)
BatchRun(js, fs, ok, k, failed) ==
    IF k > Len(js) THEN [files |-> fs, failed |-> failed]
    ELSE IF js[k].status # "PENDING_EXPORT" THEN BatchRun(js, fs, ok, k + 1, failed)
    ELSE IF ~Exists(fs, Get(js[k].final_output_path)) /\ ok[k]
    THEN BatchRun(js, WriteFile(fs, Get(js[k].final_output_path), js[k].media_file),
                  ok, k + 1, failed)
    ELSE BatchRun(js, fs, ok, k + 1, TRUE)

\* write_metadata_batch(jobs_to_export): after a failed run a job is SUCCESS when
\* a file exists at its path, else it is run on its own and fails again
WriteMetadataBatch(js, fs, ok) ==
    LET s1 == SimpleCopies(js, fs, ok, 1)
        s2 == BatchRun(s1.jobs, s1.files, ok, 1, FALSE)
        status(job) == IF job.status # "PENDING_EXPORT" THEN job.status
                       ELSE IF ~s2.failed THEN "SUCCESS"
                       ELSE IF Exists(s2.files, Get(job.final_output_path)) THEN "SUCCESS"
                       ELSE "FAILED"
    IN [jobs |-> [k \in 1..Len(js) |-> [s1.jobs[k] EXCEPT !.status = status(s1.jobs[k])]],
        files |-> s2.files]

write_metadata_batch ==
    \E b \in DOMAIN batches :
        /\ batch_pc[b].at = "write_metadata_batch"
        /\ \E ok \in [WithStatus(jobs[b], "PENDING_EXPORT") -> BOOLEAN] :
               LET r == WriteMetadataBatch(jobs[b], files, ok)
               IN /\ jobs' = [jobs EXCEPT ![b] = r.jobs]
                  /\ files' = r.files
        /\ handed' = handed \cup {[batch |-> b, job |-> k, to |-> "write_metadata_batch"] :
                                    k \in WithStatus(jobs[b], "PENDING_EXPORT")}
        /\ batch_pc' = [batch_pc EXCEPT ![b] = BatchPc("failed_jobs", 0, None)]
        /\ UNCHANGED <<media_files, batches, processed_media_ids, conflict_log,
                       pipeline_vars, container_vars, worker_vars, sidecar_vars>>

\* _handle_failed_job for every failed job, an error of the copy being printed
RECURSIVE HandleFailedJobs(_, _, _, _)
HandleFailedJobs(js, fs, ok, k) ==
    IF k > Len(js) THEN fs
    ELSE IF js[k].status = "FAILED" /\ ok[k]
    THEN HandleFailedJobs(js,
                          WriteFile(fs,
                                    find_unique_filepath(fs, Path("failed_exports",
                                                                  js[k].relative_path, 0)),
                                    js[k].media_file),
                          ok, k + 1)
    ELSE HandleFailedJobs(js, fs, ok, k + 1)

\* steps 4 and 5 of process_export_batch
process_export_batch_return ==
    \E b \in DOMAIN batches :
        /\ batch_pc[b].at = "failed_jobs"
        /\ \E ok \in [WithStatus(jobs[b], "FAILED") -> BOOLEAN] :
               files' = HandleFailedJobs(jobs[b], files, ok, 1)
        /\ batch_pc' = [batch_pc EXCEPT ![b] = BatchPc("returned", 0, None)]
        /\ UNCHANGED <<media_files, batches, processed_media_ids, jobs, conflict_log, handed,
                       pipeline_vars, container_vars, worker_vars, sidecar_vars>>

\* export_main up to the submission of the batches
ExportInit ==
    /\ media_files \in [MediaIds -> [merge : MergeOutcomes, relative_path : RelativePaths]]
    /\ \E locs \in UNION {[1..n -> MediaIds] : n \in 1..MaxLocations} :
           batches = Batches([i \in 1..Len(locs) |-> Location(i, locs[i])])
    /\ processed_media_ids = {}
    /\ jobs = [b \in DOMAIN batches |-> <<>>]
    /\ batch_pc = [b \in DOMAIN batches |-> BatchPc("prepare", 1, None)]
    /\ conflict_log = {}
    /\ files = {}
    /\ handed = {}
    /\ PipelineInit(<<>>, DefaultEnvironment)
    /\ ContainerUnused
    /\ WorkersUnused
    /\ SidecarUnused

ExportNext ==
    \/ _prepare_export_jobs
    \/ log_conflict
    \/ copy_file_task
    \/ set_final_output_path
    \/ write_metadata_batch
    \/ process_export_batch_return

SpecExport == ExportInit /\ [][ExportNext]_vars

----------------------------------------------------------------------------
(* Worker threads of export_main calling run on the one MergePipeline object.
   The step objects keep nothing but their constructor arguments and the
   timezone finder; what a run writes is the MergeContext it made. *)

MaxWorkers == 2

\* step.process(context) for a step object of the default pipeline
StepProcess(step, ctx, ents, e) ==
    CASE step.cls = "GPSMergeStep" -> GPSMergeStep_process(ctx, ents, e.set_order)
      [] step.cls = "GPSDateTimeMergeStep" -> GPSDateTimeMergeStep_process(ctx, ents)
      [] step.cls = "DateTimeAndZoneMergeStep" ->
             DateTimeAndZoneMergeStep_process(ctx, ents, e.lookup, step.field_name).ctx
      [] step.cls = "FallbackDateToGpsDateTimeStep" ->
             FallbackDateToGpsDateTimeStep_process(ctx, e.lookup, e.local_off)
      [] step.cls = "FallbackDateTimeStep" ->
             FallbackDateTimeStep_process(ctx, step.field_name, step.fallback_key)
      [] step.cls = "FallbackFileModifyDateStep" -> FallbackFileModifyDateStep_process(ctx, ents)
      [] step.cls = "FallbackRoughDateFromFilename" ->
             FallbackRoughDateFromFilename_process(ctx, ents)
      [] step.cls = "WhatsappDateCorrectionStep" -> WhatsappDateCorrectionStep_process(ctx, ents)

StepRaises(step, ctx, e) ==
    step.cls = "FallbackDateToGpsDateTimeStep" /\ FallbackDateToGpsDateTimeStep_raises(ctx, e.lookup)

\* run(sources) with no other thread around, from step i on
RECURSIVE RunFrom(_, _, _, _)
RunFrom(i, ctx, ents, e) ==
    IF i > Len(steps) THEN Outcome(ctx)
    ELSE IF StepRaises(steps[i], ctx, e) THEN Raised
    ELSE RunFrom(i + 1, StepProcess(steps[i], ctx, ents, e), ents, e)

RunAlone(ents, e) == RunFrom(1, NewContext, ents, e)

\* MergeContext(sources) makes a new object every time
MergeContext_reused(h) == 1
MergeContext(h) == Len(h) + 1

\* the entries of a few media files
WorkerFiles ==
    { <<>>,
      << RealEntry(1, "Composite:GPSLatitude", 520000000),
         RealEntry(2, "Composite:GPSLatitude", 520000016),
         RealEntry(3, "Composite:GPSLongitude", 45000000) >>,
      << RealEntry(1, "Composite:GPSLatitude", 520000000),
         RealEntry(2, "Composite:GPSLongitude", 45000000),
         DtEntry(3, "google:photoTakenTime", Aware(T0 - 7200, 0)) >>,
      << StrEntry(1, "google:title", WaName(2023, 6, 15)),
         DtEntry(2, "XMP:CreateDate", Naive(T0 + 6 * 86400)) >>,
      << RealEntry(1, "Composite:GPSLatitude", 520000000),
         RealEntry(2, "Composite:GPSLongitude", 45000000),
         DtEntry(3, "Composite:GPSDateTime", Naive(T0 - 7200)),
         DtEntry(4, "XMP:ModifyDate", Naive(T0 + 86400)) >> }

Worker(ents, context, i, result) ==
    [entries |-> ents, context |-> context, i |-> i, result |-> result]

\* a worker reaches pipeline.run(all_sources_for_file): context = MergeContext(sources)
RunCall ==
    \E w \in DOMAIN workers :
        /\ workers[w].i = 0
        /\ IsNone(workers[w].result)
        /\ heap' = Append(heap, NewContext)
        /\ workers' = [workers EXCEPT ![w].context = MergeContext(heap), ![w].i = 1]
        /\ UNCHANGED <<pipeline_vars, container_vars, export_vars, sidecar_vars>>

\* step.process(context) of the worker's next step, on the context it holds
RunStep ==
    \E w \in DOMAIN workers :
        LET i == workers[w].i
            ref == workers[w].context
        IN /\ i \in 1..Len(steps)
           /\ IF StepRaises(steps[i], heap[ref], env)
              THEN /\ workers' = [workers EXCEPT ![w].i = 0, ![w].result = Some(Raised)]
                   /\ UNCHANGED heap
              ELSE /\ heap' = [heap EXCEPT ![ref] = StepProcess(steps[i], @, workers[w].entries, env)]
                   /\ workers' = [workers EXCEPT ![w].i = i + 1]
           /\ UNCHANGED <<pipeline_vars, container_vars, export_vars, sidecar_vars>>

\* return context
RunReturn ==
    \E w \in DOMAIN workers :
        /\ workers[w].i = Len(steps) + 1
        /\ workers' = [workers EXCEPT ![w].i = 0, ![w].result = Some(Outcome(heap[workers[w].context]))]
        /\ UNCHANGED <<heap, pipeline_vars, container_vars, export_vars, sidecar_vars>>

WorkersInit ==
    /\ \E files_of \in [1..MaxWorkers -> WorkerFiles] :
           workers = [w \in 1..MaxWorkers |-> Worker(files_of[w], 0, 0, None)]
    /\ heap = <<>>
    /\ \E l \in Lookups :
           PipelineInit(<<>>, Environment(l, DefaultEnvironment.set_order, 3600))
    /\ ContainerUnused
    /\ ExportUnused
    /\ SidecarUnused

WorkersNext == RunCall \/ RunStep \/ RunReturn

SpecWorkers == WorkersInit /\ [][WorkersNext]_vars

----------------------------------------------------------------------------
(* MergeContext.get_all_arguments on contexts as pipelines of the default
   steps and of BasicFieldMergeStep leave them *)

\* what the steps can have stored under each field
StoredUnder(f) ==
    CASE f = "taken" -> { DateTimeArgument(PyDt(Aware(T0, 7200)), "taken"),
                          DateTimeArgument(PyDt(Naive(T0)), "taken") }
      [] f = "modified" -> { DateTimeArgument(PyDt(Aware(T0, 0)), "modified"),
                             DateTimeArgument(PyDt(Naive(T0)), "modified") }
      [] f = "XMP:CreateDate" -> { SimpleArgument("XMP:CreateDate", PyDt(Naive(T0))) }
      [] f = "FileModifyDate" -> { SimpleArgument("FileModifyDate", PyDt(Naive(T0))) }
      [] f = "gps_latitude" -> { SimpleArgument("GPSLatitude", PyStr(StrOfReal(520000000))) }
      [] f = "gps_datetime" -> { RawValue(PyDt(Aware(T0, 0))) }
      [] OTHER -> {}

MaybeStored(f) == {None} \cup {Some(v) : v \in StoredUnder(f)}

ArgumentsInit ==
    /\ \E t \in MaybeStored("taken"), m \in MaybeStored("modified"),
          c \in MaybeStored("XMP:CreateDate"), d \in MaybeStored("FileModifyDate"),
          g \in MaybeStored("gps_latitude"), r \in MaybeStored("gps_datetime") :
           merged_data = [NewContext.merged_data EXCEPT
                              !["taken"] = t, !["modified"] = m, !["XMP:CreateDate"] = c,
                              !["FileModifyDate"] = d, !["gps_latitude"] = g,
                              !["gps_datetime"] = r]
    /\ finalized_fields = {f \in Fields : ~IsNone(merged_data[f])}
    /\ conflicts = NewContext.conflicts
    /\ trace = {}
    /\ entries = <<>>
    /\ env = DefaultEnvironment
    /\ pc = Idle
    /\ container = <<>>
    /\ prev = NewContext
    /\ last = Idle
    /\ run = 0
    /\ returned = <<>>
    /\ ContainerUnused
    /\ ExportUnused
    /\ WorkersUnused
    /\ SidecarUnused

\* get_all_arguments, the dict being iterated in the order its fields were set
get_all_arguments ==
    /\ run = 0
    /\ \E order \in Orderings(ArgumentFields(Context)) :
           Becomes(_validate_argument_conflicts(Context, order, {}))
    /\ prev' = Context
    /\ last' = [i |-> 0, at |-> "get_all_arguments"]
    /\ run' = 1
    /\ UNCHANGED <<entries, env, pc, returned, container, container_vars, export_vars, worker_vars, sidecar_vars>>

ArgumentsNext == get_all_arguments

SpecArguments == ArgumentsInit /\ [][ArgumentsNext]_vars

----------------------------------------------------------------------------
(* Extraction of the sidecar JSON: _validate_gps and
   PhotoProcessor._parse_key_google_fields, followed by GPSMergeStep on the
   entries stored for the sidecar *)

\* a string that float() converts / one that it does not
NumericStr(r) == PyStr(Str("%f", <<r>>))
TextStr == PyStr(Str("text", <<>>))

\* float(x) raises ValueError for a string that is no number
FloatConverts(x) == x.type = "float" \/ (x.type = "str" /\ x.str.fmt = "%f")

\* variant without the test for the (0, 0) sentinel
_validate_gps_no_sentinel(lat, lon) ==
    IF IsNone(lat) \/ IsNone(lon) THEN "False"
    ELSE IF ~FloatConverts(Get(lat)) \/ ~FloatConverts(Get(lon)) THEN "False"
    ELSE IF Get(lat).type = "str" THEN "TypeError"
    ELSE IF ~(-900000000 <= Get(lat).real /\ Get(lat).real <= 900000000) THEN "False"
    ELSE IF Get(lon).type = "str" THEN "TypeError"
    ELSE IF ~(-1800000000 <= Get(lon).real /\ Get(lon).real <= 1800000000) THEN "False"
    ELSE "True"

\* "True", "False", or "TypeError": the comparisons are made on lat and lon
\* themselves, not on lat_f and lon_f, and abs() of a string raises
_validate_gps(lat, lon) ==
    IF IsNone(lat) \/ IsNone(lon) THEN "False"
    ELSE IF ~FloatConverts(Get(lat)) \/ ~FloatConverts(Get(lon)) THEN "False"
    ELSE IF Get(lat).type = "str" THEN "TypeError"
    ELSE IF Abs(Get(lat).real) < 10 /\ Get(lon).type = "str" THEN "TypeError"
    ELSE IF Abs(Get(lat).real) < 10 /\ Abs(Get(lon).real) < 10 THEN "False"
    ELSE IF ~(-900000000 <= Get(lat).real /\ Get(lat).real <= 900000000) THEN "False"
    ELSE IF Get(lon).type = "str" THEN "TypeError"
    ELSE IF ~(-1800000000 <= Get(lon).real /\ Get(lon).real <= 1800000000) THEN "False"
    ELSE "True"

\* the sidecar JSON: title, photoTakenTime.timestamp, geoData.latitude/longitude
GoogleJson(title, timestamp, latitude, longitude) ==
    [title |-> title, timestamp |-> timestamp, latitude |-> latitude, longitude |-> longitude]

\* an EAV dictionary of the returned list
Eav(key, vs, vd, vr) == [key |-> key, value_str |-> vs, value_dt |-> vd, value_real |-> vr]

Extracted(raised, eavs) == [raised |-> raised, eavs |-> eavs]

_parse_key_google_fields(json) ==
    LET titled == IF IsNone(json.title) THEN <<>>
                  ELSE <<Eav("google:title", json.title, None, None)>>
        timed == IF IsNone(json.timestamp) THEN <<>>
                 ELSE <<Eav("google:photoTakenTime", None,
                            Some(Aware(Get(json.timestamp), 0)), None)>>
        valid == _validate_gps(json.latitude, json.longitude)
    IN IF valid = "TypeError" THEN Extracted(TRUE, <<>>)
       ELSE IF valid = "True"
       THEN Extracted(FALSE, titled \o timed \o
                <<Eav("google:geoDataLatitude", None, None, Some(Get(json.latitude).real)),
                  Eav("google:geoDataLongitude", None, None, Some(Get(json.longitude).real))>>)
       ELSE Extracted(FALSE, titled \o timed)

\* the MetadataEntry rows stored for the dictionaries
Stored(eavs) ==
    [i \in 1..Len(eavs) |->
        Entry(i, eavs[i].key, eavs[i].value_str, eavs[i].value_dt, eavs[i].value_real)]

Latitudes ==
    { None, Some(TextStr), Some(NumericStr(0)) } \cup
    { Some(PyReal(r)) : r \in {0, 1, -9, 10, -10, 11, 520000000, 900000000, 900000001} }

Longitudes ==
    { None, Some(TextStr), Some(NumericStr(0)) } \cup
    { Some(PyReal(r)) : r \in {0, 1, 9, 10, -11, 45000000, -1800000000, 1800000001} }

SidecarOrder(json) ==
    (IF ~IsNone(json.latitude) /\ Get(json.latitude).type = "float"
     THEN <<Get(json.latitude).real>> ELSE <<>>) \o
    (IF ~IsNone(json.longitude) /\ Get(json.longitude).type = "float"
     THEN <<Get(json.longitude).real>> ELSE <<>>)

SidecarInit ==
    /\ \E title \in {None, Some(CamName(2023, 6, 15, 12, 0, 5))},
          timestamp \in {None, Some(T0)},
          latitude \in Latitudes, longitude \in Longitudes :
           google_json = Some(GoogleJson(title, timestamp, latitude, longitude))
    /\ extracted = None
    /\ PipelineInit(<<>>, Environment(Lookup("none", 0), SidecarOrder(Get(google_json)), 0))
    /\ ContainerUnused
    /\ ExportUnused
    /\ WorkersUnused

parse_key_google_fields ==
    /\ ~IsNone(google_json)
    /\ IsNone(extracted)
    /\ extracted' = Some(_parse_key_google_fields(Get(google_json)))
    /\ UNCHANGED <<google_json, pipeline_vars, container_vars, export_vars, worker_vars>>

\* GPSMergeStep.process on a fresh context over the entries of the sidecar
GPSMergeStep_sidecar ==
    /\ ~IsNone(extracted)
    /\ ~Get(extracted).raised
    /\ run = 0
    /\ entries' = Stored(Get(extracted).eavs)
    /\ Becomes(GPSMergeStep_process(NewContext, entries', env.set_order))
    /\ prev' = NewContext
    /\ last' = [i |-> 1, at |-> "process"]
    /\ run' = 1
    /\ UNCHANGED <<env, pc, returned, container, container_vars, export_vars, worker_vars, sidecar_vars>>

SidecarNext == parse_key_google_fields \/ GPSMergeStep_sidecar

SpecSidecar == SidecarInit /\ [][SidecarNext]_vars

----------------------------------------------------------------------------
(* Properties of the merge steps *)

\* the step of class cls has just run and no later step has touched the context
JustRan(cls) ==
    /\ last.i \in 1..Len(steps)
    /\ steps[last.i].cls = cls
    /\ \/ pc = [i |-> last.i + 1, at |-> "process"]
       \/ pc = Idle

\* the values v1 and v2 of entries with this key, every value once (Python ==)
ValuesOfKey(key) ==
    LET es == get_entries_by_keys(entries, {key})
        idx == {i \in 1..Len(es) : ~IsNone(EntryValue(es[i]))}
    IN {Get(EntryValue(es[i])) :
          i \in {i \in idx : \A j \in idx : j < i => ~PyEq(Get(EntryValue(es[j])), Get(EntryValue(es[i])))}}

FieldUntouched(field_name) ==
    /\ merged_data[field_name] = prev.merged_data[field_name]
    /\ conflicts[field_name] = prev.conflicts[field_name]
    /\ (field_name \in finalized_fields) = (field_name \in prev.finalized_fields)

(* C1: BasicFieldMergeStep for a key commits a value exactly when the entries
   with that key hold exactly one distinct non-null value, and then records no
   conflict for it; with two or more distinct non-null values it records a
   conflict and commits nothing; with none it changes nothing.  Stated for the
   step GPSDateTimeMergeStep runs on Composite:GPSDateTime. *)
C1_BasicFieldMerge ==
    JustRan("GPSDateTimeMergeStep") =>
        LET k == "Composite:GPSDateTime"
            n == Cardinality(ValuesOfKey(k))
        IN /\ n = 1 => /\ k \in finalized_fields
                       /\ ~IsNone(merged_data[k])
                       /\ \A v \in ValuesOfKey(k) : PyEq(Get(merged_data[k]).value, v)
                       /\ conflicts[k] = <<>>
           /\ n >= 2 => /\ conflicts[k] # <<>>
                        /\ k \notin finalized_fields
                        /\ IsNone(merged_data[k])
           /\ n = 0 => FieldUntouched(k)

C1_Witness ==
    /\ JustRan("GPSDateTimeMergeStep")
    /\ Len(get_entries_by_keys(entries, {"Composite:GPSDateTime"})) = 3
    /\ Cardinality(ValuesOfKey("Composite:GPSDateTime")) = 2
    /\ conflicts["Composite:GPSDateTime"] # <<>>
    /\ "Composite:GPSDateTime" \notin finalized_fields

NoTwoMatch(cands, tol) ==
    \A i, j \in 1..Len(cands) : i # j => ~_is_match(cands[i], cands[j], tol)

(* C3: at every point of DateTimeAndZoneMergeStep.process, the point after the
   Google/XMP demotion heuristic included, no two candidates held by the
   step's container match each other under the container's tolerance. *)
C3_NoTwoCandidatesMatch == NoTwoMatch(container, 20)

\* the stage-1 and stage-2 tags of an axis
PrimaryTags(key) ==
    IF key = "gps_latitude" THEN {"Composite:GPSLatitude"} ELSE {"Composite:GPSLongitude"}
SecondaryTags(key) ==
    IF key = "gps_latitude" THEN {"google:geoDataLatitude"} ELSE {"google:geoDataLongitude"}

Stage1HasValue(key) ==
    \E i \in 1..Len(entries) :
        entries[i].key \in PrimaryTags(key) /\ ~IsNone(entries[i].value_real)

Stage1Conflict(key) ==
    ~IsNone(_merge_values_from_tags(entries, PrimaryTags(key), env.set_order).conflict_msg)

(* C4: in GPSMergeStep, for each axis, the stage-2 sidecar tag is consulted if
   and only if stage 1 produced no non-null value at all; a stage-1 conflict
   records a conflict for the axis, commits nothing for it and never falls
   through to stage 2. *)
C4_Stage2OnlyWithoutStage1Data ==
    JustRan("GPSMergeStep") =>
        \A key \in {"gps_latitude", "gps_longitude"} :
            /\ (<<"stage2", key>> \in trace) <=> ~Stage1HasValue(key)
            /\ Stage1Conflict(key) =>
                   /\ conflicts[key] # <<>>
                   /\ IsNone(merged_data[key])
                   /\ key \notin finalized_fields
                   /\ <<"stage2", key>> \notin trace

C4_Witness ==
    /\ JustRan("GPSMergeStep")
    /\ Stage1Conflict("gps_latitude")
    /\ \E i \in 1..Len(entries) : entries[i].key = "google:geoDataLatitude"
    /\ conflicts["gps_latitude"] # <<>>
    /\ IsNone(merged_data["gps_latitude"])

\* DateTimeAndZoneMergeStep.process for this date type has just ended
JustResolved(date_type) ==
    /\ last.i \in 1..Len(steps)
    /\ steps[last.i].cls = "DateTimeAndZoneMergeStep"
    /\ steps[last.i].field_name = date_type
    /\ last.at = "resolve"
    /\ pc = [i |-> last.i + 1, at |-> "process"]

(* C5: given two aware candidates, after clustering, whose UTC instants differ
   by more than the tolerance, DateTimeAndZoneMergeStep records a conflict for
   the field and commits no value, also when one of the two carries UTC offset
   zero and the other a non-zero offset. *)
C5_TwoAwareInstantsConflict ==
    \A date_type \in {"taken", "modified"} :
        ( /\ JustResolved(date_type)
          /\ Cardinality(AwareIndices(container)) = 2
          /\ \E i, j \in AwareIndices(container) :
                 Abs(UtcSeconds(container[i].representative_value)
                     - UtcSeconds(container[j].representative_value)) > 20 )
        => /\ conflicts[date_type] # <<>>
           /\ date_type \notin finalized_fields

\* keys of _get_metadata_keys that name one tag
StrKeysOf(date_type) ==
    LET keys == _get_metadata_keys(date_type)
    IN {keys[i].name : i \in {j \in 1..Len(keys) : ~keys[j].pair}}

\* two datetimes further apart than tol, or of different awareness
DiffersBeyond(a, b, tol) ==
    IF a.aware # b.aware THEN TRUE
    ELSE IF a.aware THEN Abs(UtcSeconds(a) - UtcSeconds(b)) > tol
    ELSE Abs(a.wall - b.wall) > tol

\* two entries carry the same configured key with values beyond the tolerance
SameKeyDisagreement(date_type) ==
    \E i, j \in 1..Len(entries) :
        /\ i # j
        /\ entries[i].key = entries[j].key
        /\ entries[i].key \in StrKeysOf(date_type)
        /\ ~IsNone(entries[i].value_dt) /\ ~IsNone(entries[j].value_dt)
        /\ DiffersBeyond(Get(entries[i].value_dt), Get(entries[j].value_dt), 20)

(* C6: if two entries of one media file carry the same configured datetime key
   with values that differ by more than the clustering tolerance,
   DateTimeAndZoneMergeStep records a conflict for that field instead of
   committing one of the two values. *)
C6_SameKeyDisagreementConflicts ==
    \A date_type \in {"taken", "modified"} :
        (JustResolved(date_type) /\ SameKeyDisagreement(date_type))
        => /\ conflicts[date_type] # <<>>
           /\ date_type \notin finalized_fields

FallbackClasses ==
    {"FallbackDateToGpsDateTimeStep", "FallbackDateTimeStep", "FallbackFileModifyDateStep",
     "FallbackRoughDateFromFilename"}

Handled(ctx, field_name) == Finalized(ctx, field_name) \/ InConflicts(ctx, field_name)

(* C7: each fallback step changes a target field, 'taken' or 'modified', only
   if that field is neither in finalized_fields nor a key of conflicts when the
   step starts; otherwise the field's entry in merged_data, finalized_fields
   and conflicts is left unchanged by the step. *)
C7_FallbackLeavesHandledFields ==
    \A cls \in FallbackClasses :
        JustRan(cls) =>
            \A field_name \in {"taken", "modified"} :
                Handled(prev, field_name) => FieldUntouched(field_name)

C7_Witness ==
    /\ JustRan("FallbackDateTimeStep")
    /\ steps[last.i].field_name = "taken"
    /\ InConflicts(prev, "taken")
    /\ Finalized(prev, "modified")
    /\ FieldUntouched("taken")

\* abs(a - b) > 4 days on two naive datetimes
MoreThanFourDays(a, b) == Abs(a.wall - b.wall) > 4 * 86400

WaArgument(date_type) == Some(DateTimeArgument(PyDt(Get(wa_date(entries))), date_type))

(* C8: with a WhatsApp filename of valid date D and a resolved 'taken' that
   differs from noon of D by more than 4 days (more than 4x24 hours),
   WhatsappDateCorrectionStep overrides 'taken' with naive noon of D, and
   overrides 'modified' with it when 'modified' is missing or itself differs
   from noon of D by more than 4 days; when 'taken' differs by at most 4 days
   nothing is changed. *)
C8_WhatsappOverride ==
    ( /\ JustRan("WhatsappDateCorrectionStep")
      /\ ~IsNone(wa_date(entries))
      /\ ~IsNone(get_value(prev, "taken")) )
    => LET D == Get(wa_date(entries))
           taken == ReplaceTzNone(Get(get_value(prev, "taken")).dt)
           modified == get_value(prev, "modified")
           stale == IF IsNone(modified) THEN TRUE
                    ELSE MoreThanFourDays(ReplaceTzNone(Get(modified).dt), D)
       IN IF MoreThanFourDays(taken, D)
          THEN /\ merged_data["taken"] = WaArgument("taken")
               /\ IF stale THEN merged_data["modified"] = WaArgument("modified")
                  ELSE merged_data["modified"] = prev.merged_data["modified"]
          ELSE /\ merged_data = prev.merged_data
               /\ finalized_fields = prev.finalized_fields
               /\ conflicts = prev.conflicts

(* C10: running the default pipeline twice on the identical entry collection
   yields an identical committed value for each field or an identical
   conflict set. *)
C10_Deterministic ==
    \A i, j \in 1..Len(returned) : returned[i] = returned[j]

C10_Witness ==
    /\ Len(returned) = 2
    /\ ~returned[2].raised
    /\ "gps_latitude" \in returned[2].finalized_fields
    /\ Cardinality({Get(entries[i].value_real) :
                      i \in {j \in 1..Len(entries) : entries[j].key = "Composite:GPSLatitude"}}) = 2
    /\ "taken" \in returned[2].finalized_fields

(* C2: candidate clustering is invariant to insertion order: adding the same
   finite set of candidates in any permutation ends with the same set of
   clusters (same representative values, same source keys and source ids). *)
C2_ClusteringOrderInvariant ==
    (todoA = <<>> /\ todoB = <<>>) => SeqToSet(contA) = SeqToSet(contB)

\* the process_export_batch call of batch b has ended, by return or exception
BatchEnded(b) == batch_pc[b].at \in {"returned", "raised"}

(* C9: a media file whose merge context has conflicts is never exported with
   merged metadata: its export job gets status CONFLICT before the write
   stage, is never handed to the tag writer and never reaches SUCCESS, and the
   source file is instead copied to the manual-review directory with its
   conflict messages logged. *)
C9_ConflictedGoesToReview ==
    \A b \in DOMAIN batches : \A k \in 1..Len(jobs[b]) :
        (media_files[jobs[b][k].media_file].merge = "conflicts" /\ jobs[b][k].status # "SKIPPED")
        => /\ jobs[b][k].status = "CONFLICT"
           /\ [batch |-> b, job |-> k, to |-> "write_metadata_batch"] \notin handed
           /\ BatchEnded(b) =>
                  /\ jobs[b][k].source_location_to_copy.id \in conflict_log
                  /\ [batch |-> b, job |-> k, to |-> "copy_file_task"] \in handed

----------------------------------------------------------------------------
(* Properties of the timezone resolution *)

\* DateTimeAndZoneMergeStep.process for this date type is about to resolve
AboutToResolve(date_type) ==
    /\ At("DateTimeAndZoneMergeStep", "resolve")
    /\ steps[pc.i].field_name = date_type

TheAware == container[CHOOSE i \in AwareIndices(container) : TRUE]

GpsZoneResolved ==
    /\ "gps_latitude" \in finalized_fields
    /\ "gps_longitude" \in finalized_fields
    /\ env.lookup.outcome = "zone"

\* exactly one aware candidate, of known-UTC keys only and in UTC, and a GPS zone
OneUtcCandidateAndGpsZone ==
    /\ AboutToResolve("taken")
    /\ Cardinality(AwareIndices(container)) = 1
    /\ TheAware.source_keys \subseteq UTC_KEYS
    /\ TheAware.representative_value.off = 0
    /\ ~TheAware.representative_value.zone
    /\ GpsZoneResolved

\* the instant of dt expressed in the zone standing at offset off
SameInstantInZone(dt, off) ==
    [aware |-> TRUE, wall |-> (dt.wall - dt.off) + off, off |-> off, zone |-> TRUE]

CommitsInGpsZone ==
    merged_data'["taken"] =
        Some(DateTimeArgument(PyDt(SameInstantInZone(TheAware.representative_value,
                                                     env.lookup.off)), "taken"))

(* C11: given exactly one aware candidate whose source keys are all known-UTC
   keys and whose value is in UTC, and GPS coordinates committed by
   GPSMergeStep that resolve to a timezone, the committed 'taken' value is the
   same instant expressed in that GPS timezone. *)
C11_UtcInstantInGpsZone ==
    [][OneUtcCandidateAndGpsZone => CommitsInGpsZone]_vars

\* every naive candidate is within 60 seconds of the local or of the UTC wall
\* clock of the instant in the GPS zone
NaiveCandidatesAgree ==
    \A i \in 1..Len(container) :
        ~is_aware(container[i]) =>
            LET utc == UtcSeconds(TheAware.representative_value)
                wall == container[i].representative_value.wall
            IN Abs(wall - (utc + env.lookup.off)) <= 60 \/ Abs(wall - utc) <= 60

(* C11, amended: the same, given also that every naive candidate of the
   container is within 60 seconds of the local or UTC wall clock of that
   instant; a naive candidate that is not makes the step record a conflict
   and commit nothing. *)
C11_UtcInstantInGpsZone_NaiveAgree ==
    [][(OneUtcCandidateAndGpsZone /\ NaiveCandidatesAgree) => CommitsInGpsZone]_vars

C11_Witness ==
    /\ JustResolved("taken")
    /\ env.lookup = Lookup("zone", 7200)
    /\ \E i \in 1..Len(entries) : /\ entries[i].key = "google:photoTakenTime"
                                  /\ entries[i].value_dt = Some(Aware(T0 - 7200, 0))
    /\ \E i \in 1..Len(container) : ~is_aware(container[i])
    /\ merged_data["taken"] =
           Some(DateTimeArgument(PyDt([aware |-> TRUE, wall |-> T0, off |-> 7200, zone |-> TRUE]),
                                 "taken"))

\* one aware candidate with a non-UTC offset and one naive candidate
OneAwareOneNaive(date_type) ==
    /\ AboutToResolve(date_type)
    /\ Len(container) = 2
    /\ Cardinality(AwareIndices(container)) = 1
    /\ TheAware.representative_value.off # 0

TheNaive == container[CHOOSE i \in 1..Len(container) : ~is_aware(container[i])]

\* within 60 seconds of the aware candidate's local or UTC wall-clock time
NaiveMatches ==
    LET wall == TheNaive.representative_value.wall
    IN \/ Abs(wall - TheAware.representative_value.wall) <= 60
       \/ Abs(wall - UtcSeconds(TheAware.representative_value)) <= 60

NaiveWithinDay ==
    Abs(TheNaive.representative_value.wall - UtcSeconds(TheAware.representative_value)) <= 86400

\* the carve-outs of the validation: a sidecar instant against EXIF/XMP wall
\* clocks of the same day, and a file name date of the same day
CarveOut ==
    \/ /\ "google:photoTakenTime" \in TheAware.source_keys
       /\ \E k \in TheNaive.source_keys : StartsWithExifOrXmp(k)
       /\ NaiveWithinDay
    \/ /\ TheNaive.source_keys \subseteq FilenameKeys
       /\ AwareHasTrustedKey(TheAware)
       /\ NaiveWithinDay

ValidatedAgainstNaive(date_type) ==
    IF NaiveMatches
    THEN /\ merged_data'[date_type] =
                Some(DateTimeArgument(PyDt(TheAware.representative_value), date_type))
         /\ conflicts'[date_type] = conflicts[date_type]
    ELSE ~CarveOut => /\ conflicts'[date_type] # conflicts[date_type]
                      /\ date_type \notin finalized_fields'

(* C12: given one aware candidate with a non-UTC offset and one naive
   candidate within 60 seconds of the aware candidate's local wall-clock time
   (or of its UTC wall-clock time), resolution commits the aware candidate's
   value and records no conflict; a naive candidate matching neither, and not
   covered by a carve-out, records a conflict and nothing is committed. *)
C12_AwareValidatedAgainstNaive ==
    [][\A date_type \in {"taken", "modified"} :
           OneAwareOneNaive(date_type) => ValidatedAgainstNaive(date_type)]_vars

\* no GPS zone is inferred, or its offset is the candidate's, or both are
\* non-zero and at most two hours apart
GpsZoneAgrees ==
    GpsZoneResolved =>
        LET actual == TheAware.representative_value.off
            expected == env.lookup.off
        IN actual = expected \/ (expected # 0 /\ Abs(actual - expected) <= 7200)

(* C12, amended: the same, given also that no timezone is inferred from GPS
   or that the inferred offset equals the candidate's offset or lies, both
   being non-zero, within two hours of it. *)
C12_AwareValidatedAgainstNaive_GpsAgrees ==
    [][\A date_type \in {"taken", "modified"} :
           (OneAwareOneNaive(date_type) /\ GpsZoneAgrees) => ValidatedAgainstNaive(date_type)]_vars

C12_Witness ==
    /\ JustResolved("taken")
    /\ Len(container) = 2
    /\ Cardinality(AwareIndices(container)) = 1
    /\ TheAware.representative_value = Aware(T0, 7200)
    /\ TheNaive.representative_value = Naive(T0 - 7200)
    /\ GpsZoneResolved
    /\ conflicts["taken"] = <<>>
    /\ merged_data["taken"] = Some(DateTimeArgument(PyDt(Aware(T0, 7200)), "taken"))

----------------------------------------------------------------------------
(* Properties of concurrent runs *)

Started(w) == workers[w].context # 0

(* C13: when several workers run the same MergePipeline object concurrently
   on different media files, under every interleaving each run uses its own
   fresh MergeContext, and its resulting merged_data and conflicts equal those
   of running that file alone. *)
C13_RunsAreIsolated ==
    /\ \A w1, w2 \in DOMAIN workers :
           (w1 # w2 /\ Started(w1) /\ Started(w2)) => workers[w1].context # workers[w2].context
    /\ \A w \in DOMAIN workers :
           ~IsNone(workers[w].result) => Get(workers[w].result) = RunAlone(workers[w].entries, env)

\* the run of worker 1 began and ended while the run of worker 2 was under way,
\* on another file, and left a conflict
C13_Witness ==
    /\ ~IsNone(workers[1].result)
    /\ workers[2].i = 5
    /\ workers[1].context > workers[2].context
    /\ workers[1].entries # workers[2].entries
    /\ ~Get(workers[1].result).raised
    /\ Get(workers[1].result).conflicts["gps_latitude"] # <<>>
    /\ "taken" \in heap[workers[2].context].finalized_fields

----------------------------------------------------------------------------
(* Properties of get_all_arguments *)

\* two export arguments held in merged_data have overlapping managed tags
SomeTagsOverlap ==
    \E f, g \in ArgumentFields(Context) :
        /\ f # g
        /\ get_managed_tags(Get(merged_data[f])) \cap get_managed_tags(Get(merged_data[g])) # {}

(* C14: get_all_arguments records a conflict under the sentinel field name
   '_File' whenever two export arguments held in merged_data have overlapping
   managed tags, and records none when the managed tag sets of all held
   arguments are pairwise disjoint. *)
C14_TagOverlapIsFileConflict ==
    last.at = "get_all_arguments" =>
        /\ SomeTagsOverlap <=> conflicts["_File"] # <<>>
        /\ \A f \in Fields \ {"_File"} : conflicts[f] = prev.conflicts[f]
        /\ merged_data = prev.merged_data

\* three arguments, the first and the last overlapping: an aware 'taken' and
\* the XMP:CreateDate of a basic step around a 'modified'
C14_Witness ==
    /\ last.at = "get_all_arguments"
    /\ ArgumentFields(Context) = {"taken", "modified", "XMP:CreateDate"}
    /\ merged_data["taken"] = Some(DateTimeArgument(PyDt(Aware(T0, 7200)), "taken"))
    /\ Len(conflicts["_File"]) = 1

----------------------------------------------------------------------------
(* Properties of a run with conflicts *)

WithoutConflicts(ctx) == [ctx EXCEPT !.conflicts = NewContext.conflicts]

\* the step executed last has recorded a conflict
RecordedConflict ==
    /\ last.i \in 1..Len(steps)
    /\ \E f \in Fields : conflicts[f] # prev.conflicts[f]

\* the run is in that step, at the next step, or has returned after the last step
RunGoesOn ==
    \/ pc.i \in {last.i, last.i + 1}
    \/ /\ pc = Idle
       /\ last.i = Len(steps)
       /\ returned # <<>>
       /\ ~returned[Len(returned)].raised

\* DateTimeAndZoneMergeStep('modified') has just run on a context with a
\* conflict for 'taken' or for a GPS axis
ModifiedRanAfterConflict ==
    /\ JustRan("DateTimeAndZoneMergeStep")
    /\ steps[last.i].field_name = "modified"
    /\ \E f \in {"taken", "gps_latitude", "gps_longitude"} : InConflicts(prev, f)

\* what the step does for 'modified' on the same context without the conflicts
ModifiedAlone ==
    DateTimeAndZoneMergeStep_process(WithoutConflicts(prev), entries, env.lookup, "modified").ctx

ModifiedAsAlone ==
    /\ merged_data["modified"] = ModifiedAlone.merged_data["modified"]
    /\ conflicts["modified"] = ModifiedAlone.conflicts["modified"]
    /\ Finalized(Context, "modified") = Finalized(ModifiedAlone, "modified")

(* C15: a conflict recorded for one field never aborts the run: after the step
   that records it the run is at the next step (or returns the context after
   the last step); and DateTimeAndZoneMergeStep('modified') running on a
   context with a conflict for 'taken' or a GPS axis leaves 'modified' as it
   does on the same context without conflicts, committing it when the
   modified-date sources agree. *)
C15_ConflictNeverAborts ==
    /\ RecordedConflict => RunGoesOn
    /\ ModifiedRanAfterConflict => ModifiedAsAlone

C15_Witness ==
    /\ ModifiedRanAfterConflict
    /\ InConflicts(prev, "taken")
    /\ ~Finalized(prev, "modified")
    /\ Finalized(Context, "modified")

----------------------------------------------------------------------------
(* Properties of the extraction of the sidecar *)

IsNumber(x) == ~IsNone(x) /\ Get(x).type = "float"

\* geoData with latitude and longitude both nearer to zero than 1e-6
NearZeroGeoData ==
    /\ ~IsNone(google_json)
    /\ IsNumber(Get(google_json).latitude) /\ Abs(Get(Get(google_json).latitude).real) < 10
    /\ IsNumber(Get(google_json).longitude) /\ Abs(Get(Get(google_json).longitude).real) < 10

GeoDataKeys == {"google:geoDataLatitude", "google:geoDataLongitude"}

NoGeoDataEntries ==
    /\ ~Get(extracted).raised
    /\ \A i \in 1..Len(Get(extracted).eavs) : Get(extracted).eavs[i].key \notin GeoDataKeys

(* C16: sidecar geoData whose latitude and longitude are both nearer to zero
   than 1e-6 is rejected at extraction: _parse_key_google_fields returns no
   google:geoDataLatitude / google:geoDataLongitude entry for it, and
   GPSMergeStep run on the stored entries commits neither axis. *)
C16_NearZeroGeoDataRejected ==
    (NearZeroGeoData /\ ~IsNone(extracted)) =>
        /\ NoGeoDataEntries
        /\ ~Finalized(Context, "gps_latitude")
        /\ ~Finalized(Context, "gps_longitude")

C16_Witness ==
    /\ NearZeroGeoData
    /\ Get(Get(google_json).latitude).real = 1
    /\ Get(Get(google_json).longitude).real = 1
    /\ ~IsNone(extracted)
    /\ run = 1
    /\ Len(entries) = 2

----------------------------------------------------------------------------
(* Properties of the comparison of GPS values *)

RealValues(keys) ==
    {Get(entries[i].value_real) :
        i \in {j \in 1..Len(entries) : entries[j].key \in keys /\ ~IsNone(entries[j].value_real)}}

\* the non-null values of the stage that decides the axis
StageValues(key) ==
    IF Stage1HasValue(key) THEN RealValues(PrimaryTags(key)) ELSE RealValues(SecondaryTags(key))

AllAgreePairwise(values) == \A a \in values, b \in values : gps_comparator(a, b)

(* C17: when the deciding stage of GPSMergeStep holds several non-null values
   for an axis, the axis is committed only if all of the values agree pairwise
   within 1e-6; if some pair differs by more, a conflict is recorded for the
   axis and nothing is committed. *)
C17_CommitOnlyIfAllPairsAgree ==
    JustRan("GPSMergeStep") =>
        \A key \in {"gps_latitude", "gps_longitude"} :
            Cardinality(StageValues(key)) > 1 =>
                /\ Finalized(Context, key) => AllAgreePairwise(StageValues(key))
                /\ ~AllAgreePairwise(StageValues(key)) =>
                       InConflicts(Context, key) /\ ~Finalized(Context, key)

----------------------------------------------------------------------------
(* Properties of add_candidate *)

\* contA.add_candidate(Head(todoA)) is the step being taken
AddsToA == todoA # <<>> /\ todoA' = Tail(todoA)

MatchingIn(cands, c) == {i \in 1..Len(cands) : _is_match(cands[i], c, tolerance)}

NonMatchingIn(cands, c) == SelectSeq(cands, LAMBDA x : ~_is_match(x, c, tolerance))

\* the values, keys and ids of the matches and of c
ValuesToMerge(cands, c) ==
    {cands[i].representative_value : i \in MatchingIn(cands, c)} \cup {c.representative_value}
KeysToMerge(cands, c) ==
    UNION {cands[i].source_keys : i \in MatchingIn(cands, c)} \cup c.source_keys
IdsToMerge(cands, c) ==
    UNION {cands[i].source_ids : i \in MatchingIn(cands, c)} \cup c.source_ids

IsEarliest(v, values) == v \in values /\ \A w \in values : ~DtLess(w, v)

\* after, the non-matching candidates of before are followed by one candidate
\* that stands for the matches and c
MergedInPlace(before, c, after) ==
    /\ Len(after) = Len(NonMatchingIn(before, c)) + 1
    /\ SubSeq(after, 1, Len(after) - 1) = NonMatchingIn(before, c)
    /\ IsEarliest(after[Len(after)].representative_value, ValuesToMerge(before, c))
    /\ after[Len(after)].source_keys = KeysToMerge(before, c)
    /\ after[Len(after)].source_ids = IdsToMerge(before, c)

AllIds(cands) == UNION {cands[i].source_ids : i \in 1..Len(cands)}

\* every source id of the container belongs to exactly one candidate
IdsInOneCandidate(cands) ==
    \A i, j \in 1..Len(cands) : i # j => cands[i].source_ids \cap cands[j].source_ids = {}

(* C18: when add_candidate(c) finds matching candidates, the container
   afterwards holds one candidate in place of all matches and c, with the
   earliest of their values and the unions of their source_keys and
   source_ids; every non-matching candidate is left unchanged; and after
   any sequence of adds every added source id belongs to exactly one
   candidate. *)
C18_AddMergesMatches ==
    [][AddsToA =>
          /\ MatchingIn(contA, Head(todoA)) # {} => MergedInPlace(contA, Head(todoA), contA')
          /\ MatchingIn(contA, Head(todoA)) = {} => contA' = Append(contA, Head(todoA))
          /\ AllIds(contA') = AllIds(contA) \cup Head(todoA).source_ids
          /\ IdsInOneCandidate(contA')]_vars

(* C18, amended: the same, every added source id belonging to exactly one
   candidate as long as no source id is added twice. *)
C18_AddMergesMatches_DisjointIds ==
    [][AddsToA =>
          /\ MatchingIn(contA, Head(todoA)) # {} => MergedInPlace(contA, Head(todoA), contA')
          /\ MatchingIn(contA, Head(todoA)) = {} => contA' = Append(contA, Head(todoA))
          /\ AllIds(contA') = AllIds(contA) \cup Head(todoA).source_ids
          /\ (IdsInOneCandidate(contA) /\ AllIds(contA) \cap Head(todoA).source_ids = {})
                 => IdsInOneCandidate(contA')]_vars

\* three candidates have been added, the last two merged into the first
C18_Witness ==
    /\ todoA = <<>>
    /\ Len(contA) = 1
    /\ contA[1].source_ids = {1, 2, 7}
    /\ contA[1].representative_value = Naive(T0)
    /\ contA[1].source_keys = {"XMP:CreateDate", "EXIF:CreateDate", "EXIF:DateTimeOriginal"}

----------------------------------------------------------------------------
(* Properties of DateTimeAndZoneMergeStep after a conflict *)

\* the step for date_type has just run and recorded a conflict for its field
RecordedOwnConflict(date_type) ==
    /\ JustRan("DateTimeAndZoneMergeStep")
    /\ steps[last.i].field_name = date_type
    /\ conflicts[date_type] # prev.conflicts[date_type]

(* C19: whenever DateTimeAndZoneMergeStep records a conflict for its field
   during process, the conflict for several distinct filename dates included,
   the same run of the step commits no value for that field. *)
C19_ConflictCommitsNothing ==
    \A date_type \in {"taken", "modified"} :
        RecordedOwnConflict(date_type) =>
            /\ IsNone(merged_data[date_type])
            /\ ~Finalized(Context, date_type)

----------------------------------------------------------------------------
(* Properties of the (date, offset) pair candidate *)

\* DateTimeAndZoneMergeStep has gathered the candidates of its keys
JustGathered ==
    /\ At("DateTimeAndZoneMergeStep", "heuristic")
    /\ last = [i |-> pc.i, at |-> "process"]

PairKeysOf(date_type) ==
    {k \in SeqToSet(_get_metadata_keys(date_type)) : k.pair}

\* the offset "+HH:MM" / "-HH:MM" states, in seconds
StatedOffsetSeconds(s) == s.n[1] * (s.n[2] * 3600 + s.n[3] * 60)

\* both halves present, the date naive, the offset string of the strict pattern
PairIsWellFormed(key) ==
    /\ ~IsNone(_get_value_from_key_and_entries(key.first, entries))
    /\ ~IsNone(_get_value_from_key_and_entries(key.second, entries))
    /\ Get(_get_value_from_key_and_entries(key.first, entries)).type = "datetime"
    /\ ~Get(_get_value_from_key_and_entries(key.first, entries)).dt.aware
    /\ Get(_get_value_from_key_and_entries(key.second, entries)).type = "str"
    /\ OffsetRegexMatches(Get(_get_value_from_key_and_entries(key.second, entries)).str)

PairCandidateAsStated(key) ==
    /\ ~IsNone(_get_candidate(key, entries))
    /\ Get(_get_candidate(key, entries)).representative_value.aware
    /\ Get(_get_candidate(key, entries)).representative_value.wall =
           Get(_get_value_from_key_and_entries(key.first, entries)).dt.wall
    /\ Get(_get_candidate(key, entries)).representative_value.off =
           StatedOffsetSeconds(Get(_get_value_from_key_and_entries(key.second, entries)).str)

(* C20: when both halves of a (date, offset) key pair are present, the date is
   naive and the offset string matches the strict +HH:MM / -HH:MM pattern,
   _get_candidate gives one aware candidate with the wall-clock time of the
   date and the signed offset the string states, the sign applying to hours
   and minutes together; otherwise it gives no candidate for the pair. *)
C20_PairCandidateHasStatedOffset ==
    JustGathered =>
        \A key \in PairKeysOf(steps[pc.i].field_name) :
            IF PairIsWellFormed(key) THEN PairCandidateAsStated(key)
            ELSE IsNone(_get_candidate(key, entries))

----------------------------------------------------------------------------
(* Properties of the offset inferred from naive candidates *)

\* the naive candidates that do not come from a file name
HintCandidates == NotFromFilename(naive_candidates(container))

\* the step is about to resolve with one aware candidate that is still flagged
\* as UTC (no GPS zone has re-expressed it) and naive candidates as hints
UtcFlaggedPrimaryWithHints(date_type) ==
    /\ AboutToResolve(date_type)
    /\ Cardinality(AwareIndices(container)) = 1
    /\ IsTimezoneUtc(TheAware.representative_value)
    /\ TheAware.source_keys \subseteq UTC_KEYS
    /\ IsNone(infer_timezone(Context, env.lookup))
    /\ HintCandidates # <<>>

ImpliedOffset(nc) == nc.representative_value.wall - UtcSeconds(TheAware.representative_value)

\* seconds between an offset and the nearest multiple of 30 minutes
FromHalfHour(offset) ==
    IF offset % 1800 <= 900 THEN offset % 1800 ELSE 1800 - (offset % 1800)

OffsetIsInvalid(offset) ==
    \/ offset < -12 * 3600
    \/ offset > 14 * 3600
    \/ FromHalfHour(offset) > 60

\* the nearest multiple of 30 minutes
Snapped(offset) ==
    CHOOSE m \in {k * 1800 : k \in -24..28} : Abs(offset - m) <= 900

SnappedOffsets == {Snapped(ImpliedOffset(HintCandidates[i])) : i \in 1..Len(HintCandidates)}

SomeHintIsInvalid ==
    \E i \in 1..Len(HintCandidates) : OffsetIsInvalid(ImpliedOffset(HintCandidates[i]))

\* all snapped offsets agree, or there are two of them and one is zero
OffsetsSettle ==
    \/ Cardinality(SnappedOffsets) = 1
    \/ Cardinality(SnappedOffsets) = 2 /\ 0 \in SnappedOffsets

SettledOffset ==
    IF Cardinality(SnappedOffsets) = 1 THEN CHOOSE o \in SnappedOffsets : TRUE
    ELSE CHOOSE o \in SnappedOffsets : o # 0

ConflictAndNothing(date_type) ==
    /\ conflicts'[date_type] # conflicts[date_type]
    /\ merged_data'[date_type] = merged_data[date_type]
    /\ date_type \notin finalized_fields'

(* C21: with a primary aware candidate that is still UTC-flagged and naive
   candidates that are not from file names, an implied offset outside
   [-12h, +14h] or more than a minute from a 30-minute boundary makes the step
   record a conflict; a value is committed only when the snapped offsets all
   agree, or are two with one of them zero, and it is then the primary
   instant at that offset; any other disagreement records a conflict and
   commits nothing. *)
C21_OffsetFromNaiveCandidates ==
    [][\A date_type \in {"taken", "modified"} :
          UtcFlaggedPrimaryWithHints(date_type) =>
              /\ SomeHintIsInvalid => ConflictAndNothing(date_type)
              /\ merged_data'[date_type] # merged_data[date_type] =>
                     /\ ~SomeHintIsInvalid
                     /\ OffsetsSettle
                     /\ merged_data'[date_type] =
                            Some(DateTimeArgument(
                                     PyDt(AsFixedOffset(TheAware.representative_value,
                                                        SettledOffset)), date_type))
              /\ (~SomeHintIsInvalid /\ ~OffsetsSettle) => ConflictAndNothing(date_type)]_vars

\* a hint 30 seconds off is snapped, and the instant is committed at +02:00
C21_Witness ==
    /\ JustResolved("taken")
    /\ \E i \in 1..Len(container) :
           /\ ~is_aware(container[i])
           /\ container[i].representative_value = Naive(T0 + 30)
    /\ \E i \in 1..Len(container) : container[i].source_keys = {"google:photoTakenTime"}
    /\ merged_data["taken"] = Some(DateTimeArgument(PyDt(Aware(T0, 7200)), "taken"))
    /\ ~InConflicts(Context, "taken")

----------------------------------------------------------------------------
(* Properties of the resolution without aware candidates *)

NaiveOnly(date_type) ==
    /\ AboutToResolve(date_type)
    /\ AwareIndices(container) = {}

TheNaives == naive_candidates(container)

GpsZone == infer_timezone(Context, env.lookup)

Commits(date_type, v) ==
    /\ merged_data'[date_type] = Some(DateTimeArgument(PyDt(v), date_type))
    /\ date_type \in finalized_fields'
    /\ conflicts'[date_type] = conflicts[date_type]

NoOp(date_type) ==
    /\ merged_data'[date_type] = merged_data[date_type]
    /\ conflicts'[date_type] = conflicts[date_type]
    /\ (date_type \in finalized_fields') = (date_type \in finalized_fields)

InZoneIfKnown(v) == IF IsNone(GpsZone) THEN v ELSE ReplaceTzZone(v, Get(GpsZone))

\* u read as UTC and converted to the GPS zone shows the wall clock of l
ExplainedByZone(u, l) == Abs((u.wall + Get(GpsZone)) - l.wall) < 5

EarliestNaive ==
    CHOOSE v \in {TheNaives[i].representative_value : i \in 1..Len(TheNaives)} :
        \A i \in 1..Len(TheNaives) : v.wall <= TheNaives[i].representative_value.wall

\* the loose pass leaves one cluster
LooseCollapses == Len(AddAll(<<>>, 3660, TheNaives)) = 1

PairWithGps(date_type) ==
    IF ExplainedByZone(TheNaives[1].representative_value, TheNaives[2].representative_value)
    THEN Commits(date_type, AsZone(ReplaceTzUtc(TheNaives[1].representative_value), Get(GpsZone)))
    ELSE IF ExplainedByZone(TheNaives[2].representative_value, TheNaives[1].representative_value)
    THEN Commits(date_type, AsZone(ReplaceTzUtc(TheNaives[2].representative_value), Get(GpsZone)))
    ELSE ConflictAndNothing(date_type)

(* C22: with no aware candidates, zero naive candidates is a no-op; exactly
   one is committed, localized to the GPS timezone if known; exactly two with
   a known GPS timezone commit the value in that zone when one is the other
   converted from UTC to the zone within 5 seconds, else record a conflict; in
   every other case the candidates are re-clustered with a tolerance of 1h1m
   and, if one cluster is left, its earliest value is committed (localized if
   the zone is known), otherwise a conflict is recorded and nothing is
   committed. *)
C22_NaiveOnlyResolution ==
    [][\A date_type \in {"taken", "modified"} :
          NaiveOnly(date_type) =>
              CASE Len(TheNaives) = 0 -> NoOp(date_type)
                [] Len(TheNaives) = 1 ->
                       Commits(date_type, InZoneIfKnown(TheNaives[1].representative_value))
                [] Len(TheNaives) = 2 /\ ~IsNone(GpsZone) -> PairWithGps(date_type)
                [] OTHER ->
                       IF LooseCollapses
                       THEN Commits(date_type, InZoneIfKnown(EarliestNaive))
                       ELSE ConflictAndNothing(date_type)]_vars

\* two naive candidates two hours apart and the GPS zone at +02:00
C22_Witness ==
    /\ JustResolved("taken")
    /\ AwareIndices(container) = {}
    /\ Len(container) = 2
    /\ env.lookup = Lookup("zone", 7200)
    /\ GpsZoneResolved
    /\ merged_data["taken"] =
           Some(DateTimeArgument(PyDt(AsZone(Aware(T0 - 7200, 0), 7200)), "taken"))

----------------------------------------------------------------------------
(* Properties of the in-place changes of candidates *)

\* a phase of process that changes candidate objects of the container in place
MutatingPhase(at) ==
    /\ At("DateTimeAndZoneMergeStep", at)
    /\ Len(container') = Len(container)

\* candidate i is the same but for the offset its instant is expressed in
ReExpressed(i) ==
    /\ container'[i].source_keys = container[i].source_keys
    /\ container'[i].source_ids = container[i].source_ids
    /\ container'[i].representative_value.aware = container[i].representative_value.aware
    /\ UtcSeconds(container'[i].representative_value) = UtcSeconds(container[i].representative_value)

\* candidate i, from XMP:DateTimeOriginal alone, has lost its tzinfo
Demoted(i) ==
    /\ container[i].source_keys = {"XMP:DateTimeOriginal"}
    /\ container'[i] = [container[i] EXCEPT !.representative_value = ReplaceTzNone(@)]

(* C23: every in-place change made to a candidate during
   DateTimeAndZoneMergeStep.process keeps the candidate's awareness and its
   UTC instant, changing only the offset it is expressed in. *)
C23_OnlyReExpressedInPlace ==
    [][\A at \in {"heuristic", "resolve"} :
          MutatingPhase(at) =>
              \A i \in 1..Len(container) :
                  container'[i] # container[i] => ReExpressed(i)]_vars

(* C23, amended: the same for the changes made by the resolvers; the
   Google/XMP heuristic changes one candidate in place otherwise, making the
   XMP:DateTimeOriginal candidate naive with its wall clock kept. *)
C23_OnlyReExpressedOrDemotedInPlace ==
    [][/\ MutatingPhase("resolve") =>
              \A i \in 1..Len(container) :
                  container'[i] # container[i] => ReExpressed(i)
       /\ MutatingPhase("heuristic") =>
              \A i \in 1..Len(container) :
                  container'[i] # container[i] => Demoted(i)]_vars

\* the UTC instant of google:photoTakenTime has been re-expressed at +02:00
C23_Witness ==
    /\ JustResolved("taken")
    /\ \E i \in 1..Len(container) :
           /\ container[i].source_keys = {"google:photoTakenTime"}
           /\ container[i].representative_value.off = 7200
           /\ ~container[i].representative_value.zone

----------------------------------------------------------------------------
(* Properties of the Google/XMP heuristic *)

Unmerged(key) == {i \in 1..Len(container) : container[i].source_keys = {key}}

\* unmerged candidates of google:photoTakenTime and XMP:DateTimeOriginal, both
\* at UTC offset zero, with different wall clocks, and no other candidate
GoogleAndXmpDisagree ==
    /\ Len(container) = 2
    /\ Unmerged("google:photoTakenTime") # {}
    /\ Unmerged("XMP:DateTimeOriginal") # {}
    /\ \A i \in 1..2 : IsTimezoneUtc(container[i].representative_value)
    /\ container[1].representative_value.wall # container[2].representative_value.wall

TheXmp == container[CHOOSE i \in Unmerged("XMP:DateTimeOriginal") : TRUE]

\* the XMP candidate is naive, with its wall clock, and the Google one is as it was
XmpDemoted ==
    /\ Len(container') = 2
    /\ \A i \in Unmerged("google:photoTakenTime") : container'[i] = container[i]
    /\ \A i \in Unmerged("XMP:DateTimeOriginal") :
           container'[i] = [container[i] EXCEPT !.representative_value = Naive(@.wall)]

\* the step resolves the Google anchor against the demoted XMP candidate alone
AnchorAndDemotedXmp ==
    /\ UtcFlaggedPrimaryWithHints("taken")
    /\ Len(container) = 2
    /\ TheAware.source_keys = {"google:photoTakenTime"}
    /\ HintCandidates[1].source_keys = {"XMP:DateTimeOriginal"}

(* C24: unmerged candidates of google:photoTakenTime and XMP:DateTimeOriginal
   that both carry UTC offset zero but different wall clocks: the XMP candidate
   is demoted to naive and the Google candidate stays the only aware anchor;
   with no other candidate and no GPS timezone 'taken' is then committed as the
   Google instant at the offset implied by the XMP wall clock minus the Google
   UTC time when that offset is a valid multiple of 30 minutes, and a conflict
   is recorded otherwise. *)
C24_DemotedXmpGivesOffset ==
    [][/\ (At("DateTimeAndZoneMergeStep", "heuristic") /\ GoogleAndXmpDisagree) => XmpDemoted
       /\ AnchorAndDemotedXmp =>
              IF SomeHintIsInvalid THEN ConflictAndNothing("taken")
              ELSE Commits("taken", AsFixedOffset(TheAware.representative_value,
                                                  Snapped(ImpliedOffset(HintCandidates[1]))))]_vars

----------------------------------------------------------------------------
(* Properties of the dependency reads of the fallback steps *)

\* the step executed last found its target open and its dependency not finalized
DependencyMissing(field_name, fallback_key) ==
    /\ ~Finalized(prev, field_name)
    /\ ~InConflicts(prev, field_name)
    /\ get_value_raises(prev, fallback_key)

FallbackDateTimeStepMissedDependency ==
    /\ JustRan("FallbackDateTimeStep")
    /\ DependencyMissing(steps[last.i].field_name, steps[last.i].fallback_key)

FallbackDateToGpsMissedDependency ==
    /\ last.i \in 1..Len(steps)
    /\ steps[last.i].cls = "FallbackDateToGpsDateTimeStep"
    /\ pc \in {[i |-> last.i + 1, at |-> "process"], Idle}
    /\ DependencyMissing("taken", "Composite:GPSDateTime")

(* C25: a required read of a field that is not finalized raises and leaves
   the context as it was; FallbackDateTimeStep and
   FallbackDateToGpsDateTimeStep, whose target is open and whose dependency
   is not finalized, leave the whole context unchanged, and the run goes on
   with the next step. *)
C25_MissingDependencyIsUnknown ==
    /\ FallbackDateTimeStepMissedDependency => (Context = prev /\ RunGoesOn)
    /\ FallbackDateToGpsMissedDependency => (Context = prev /\ RunGoesOn)

C25_Witness ==
    /\ FallbackDateTimeStepMissedDependency
    /\ steps[last.i].field_name = "modified"
    /\ entries # <<>>
    /\ Context = prev

----------------------------------------------------------------------------
(* Properties of a Composite:GPSDateTime that is no datetime *)

\* the entries hold one distinct Composite:GPSDateTime value, and it is no datetime
SingleNonDatetimeGps ==
    /\ Cardinality(ValuesOfKey("Composite:GPSDateTime")) = 1
    /\ \A v \in ValuesOfKey("Composite:GPSDateTime") : v.type # "datetime"

\* no run over these entries has ended in an exception
EveryRunReturned == \A k \in 1..Len(returned) : ~returned[k].raised

GpsFallbackRan ==
    /\ last.i \in 1..Len(steps)
    /\ steps[last.i].cls = "FallbackDateToGpsDateTimeStep"

(* C26: when the entries hold a single distinct Composite:GPSDateTime value
   that is not a datetime, GPSDateTimeMergeStep records a diagnostic under
   gps_datetime and sets neither GPSDateStamp nor GPSTimeStamp,
   FallbackDateToGpsDateTimeStep leaves taken as it found it, and every step
   of the run is executed: the run never ends in an exception. *)
C26_NonDatetimeGpsIsDiagnosed ==
    SingleNonDatetimeGps =>
        /\ JustRan("GPSDateTimeMergeStep") =>
               /\ conflicts["gps_datetime"] # <<>>
               /\ conflicts["gps_datetime"] # prev.conflicts["gps_datetime"]
               /\ ~Finalized(Context, "GPSDateStamp") /\ IsNone(merged_data["GPSDateStamp"])
               /\ ~Finalized(Context, "GPSTimeStamp") /\ IsNone(merged_data["GPSTimeStamp"])
        /\ (pc.i > 2 \/ last.i = Len(steps)) =>
               ~Finalized(Context, "GPSDateStamp") /\ ~Finalized(Context, "GPSTimeStamp")
        /\ GpsFallbackRan => (FieldUntouched("taken") /\ RunGoesOn)
        /\ EveryRunReturned
        /\ (returned # <<>> /\ pc = Idle) => last.i = Len(steps)

C26_Witness ==
    /\ SingleNonDatetimeGps
    /\ pc = Idle /\ returned # <<>> /\ last.i = Len(steps)
    /\ conflicts["gps_datetime"] # <<>>
    /\ ~Finalized(Context, "taken")
    /\ \E i \in 1..Len(entries) : entries[i].key = "Composite:GPSLatitude"

----------------------------------------------------------------------------
(* Properties of the outcome of DateTimeAndZoneMergeStep *)

\* the candidates process gathers from the metadata keys of date_type
Gathered(date_type) == _get_candidate_container(_get_metadata_keys(date_type), entries)

\* process has returned and the field has neither a value nor a conflict
DroppedSilently(date_type) ==
    /\ JustResolved(date_type)
    /\ Gathered(date_type) # <<>>
    /\ ~Finalized(Context, date_type)
    /\ IsNone(merged_data[date_type])
    /\ conflicts[date_type] = <<>>

(* C27: whenever DateTimeAndZoneMergeStep has gathered at least one candidate
   for its field, process ends with the field committed or with a conflict
   recorded for it, never with neither. *)
C27_NeverDroppedSilently ==
    \A date_type \in {"taken", "modified"} : ~DroppedSilently(date_type)

----------------------------------------------------------------------------
(* Properties of the context a run returns *)

\* the field has a committed value and a recorded conflict
CommittedAndConflicted(outcome, field_name) ==
    /\ field_name \in outcome.finalized_fields
    /\ outcome.conflicts[field_name] # <<>>

\* the step executed last has committed a value for a field with a conflict
CommittedOverConflict ==
    /\ last.i \in 1..Len(steps)
    /\ \E f \in Fields :
           /\ InConflicts(Context, f)
           /\ Finalized(Context, f)
           /\ merged_data[f] # prev.merged_data[f]

(* C28: in the context returned by a run of the default pipeline no field is
   both in finalized_fields and a key of conflicts, and no step, the
   WhatsappDateCorrectionStep included, commits a value for a field that has a
   conflict. *)
C28_FinalizedAndConflictsDisjoint ==
    /\ \A k \in 1..Len(returned) :
           ~returned[k].raised =>
               \A f \in Fields : ~CommittedAndConflicted(returned[k], f)
    /\ ~CommittedOverConflict

----------------------------------------------------------------------------
(* Properties of the export jobs of concurrent batches *)

\* the jobs, of every batch, made for locations of media file m
JobsOf(m) ==
    {bk \in {<<b, k>> : b \in DOMAIN jobs, k \in 1..MaxLocations} :
        bk[2] <= Len(jobs[bk[1]]) /\ jobs[bk[1]][bk[2]].media_file = m}

NonSkippedJobsOf(m) == {bk \in JobsOf(m) : jobs[bk[1]][bk[2]].status # "SKIPPED"}

LocationsOf(m) ==
    {bi \in {<<b, i>> : b \in DOMAIN batches, i \in 1..BATCH_SIZE} :
        bi[2] <= Len(batches[bi[1]]) /\ batches[bi[1]][bi[2]].media_file = m}

(* C29: across the batches that run concurrently, a media file never gets two
   export jobs that are not SKIPPED, and when every batch has ended each media
   file with a location to export has exactly one job that is not SKIPPED and
   a SKIPPED job for each of its other locations. *)
C29_OneJobPerMediaFile ==
    \A m \in MediaIds :
        /\ Cardinality(NonSkippedJobsOf(m)) <= 1
        /\ ((\A b \in DOMAIN batches : BatchEnded(b)) /\ LocationsOf(m) # {}) =>
               /\ Cardinality(NonSkippedJobsOf(m)) = 1
               /\ Cardinality(JobsOf(m)) = Cardinality(LocationsOf(m))

----------------------------------------------------------------------------
(* Properties of the paths the export writes to *)

\* the jobs, of every batch, that have been given a final_output_path
JobsWithFinalPath ==
    {bk \in {<<b, k>> : b \in DOMAIN jobs, k \in 1..MaxLocations} :
        bk[2] <= Len(jobs[bk[1]]) /\ ~IsNone(jobs[bk[1]][bk[2]].final_output_path)}

JobAt(bk) == jobs[bk[1]][bk[2]]

\* the file at the job's final_output_path holds the job's media file
OwnFileWritten(job) ==
    \E f \in files : f.path = Get(job.final_output_path) /\ f.content = job.media_file

(* C30: no two export jobs that reach the write stage, in one batch or in
   batches that run concurrently, have the same final_output_path, and a job
   has status SUCCESS only when the file at its final_output_path is the one
   written for it. *)
C30_FinalPathsAreUnique ==
    /\ \A j1, j2 \in JobsWithFinalPath :
           j1 # j2 => JobAt(j1).final_output_path # JobAt(j2).final_output_path
    /\ \A j \in JobsWithFinalPath :
           JobAt(j).status = "SUCCESS" => OwnFileWritten(JobAt(j))

====
